---- MODULE Spec2Model ----
(***************************************************************************)
(* A model of go-asten: the registry of groups, the profile tree, the      *)
(* profile builders, the cached statistics and the timers.                 *)
(*                                                                         *)
(* Objects live in three heaps (groups, profiles, builders); a pointer is  *)
(* the index of the object in its heap and NIL is the nil pointer.  Every  *)
(* Go function is an operator from a world (the heaps, the registry and    *)
(* the fault flag) to the world it leaves.  A fault is a Go panic or a     *)
(* runtime fatal error: it ends the process, so no operation runs after it.*)
(***************************************************************************)
EXTENDS Integers, Sequences, FiniteSets, TLC

VARIABLES ggroups, groups, profiles, builders, fault, nreg, durs, threads

vars == <<ggroups, groups, profiles, builders, fault, nreg, durs, threads>>

----------------------------------------------------------------------------
(* Bounds of the model. *)

\* profiles the heap may hold
MaxProfiles == 3
\* sample registrations in one behaviour
MaxSamples == 2
\* the single-leaf specification: registrations, the longest sample, the
\* largest thread count
MaxLeafSamples == 3
MaxLeafDur == 3
MaxLeafThreads == 3
\* SpecBuilder: profiles in the heap, builders made by NewProfileBuilder, and
\* samples registered
MaxBuilderProfiles == 2
MaxFreshBuilders == 1
MaxBuilderSamples == 1
\* SpecConc: concurrent calls
MaxThreads == 2
\* SpecThreads: profiles stamped from the builder
MaxStamped == 2

GroupNames == {"g"}
Names == {"base", "a"}

\* var default_condition_name = "base"
default_condition_name == "base"

\* the available cores (runtime.NumCPU, or SetCoresNumber)
cores == 2

NIL == 0
NoFault == "none"

\* a map with no key: a nil map reads like an empty one, and the code writes
\* a profile's map only after make()
EmptyMap == << >>

Put(m, k, v) == (k :> v) @@ m

Range(m) == {m[k] : k \in DOMAIN m}

\* sync.RWMutex{}: w, a writer holds it; r, the readers that hold it
FreeMu == [w |-> FALSE, r |-> 0]

\* float64(a) / float64(b), kept as the pair (a, b); b = 0 gives NaN or +Inf
FloatDiv(a, b) == <<a, b>>

\* the float64 zero value
FloatZero == <<0, 1>>

----------------------------------------------------------------------------
(* Mutexes.  Lock of a held mutex blocks: in a handler that runs alone it   *)
(* never returns, which the sequential operators record as a fault.        *)

\* a Lock that does not wait for the holder
MuLockBarging(W, mu) == [w |-> W, mu |-> [mu EXCEPT !.w = TRUE]]

MuLock(W, mu) ==
    IF mu.w \/ mu.r > 0 THEN [w |-> [W EXCEPT !.fault = "blocked: Lock"], mu |-> mu]
    ELSE [w |-> W, mu |-> [mu EXCEPT !.w = TRUE]]

MuUnlock(W, mu) ==
    IF ~mu.w THEN [w |-> [W EXCEPT !.fault = "fatal: Unlock of unlocked RWMutex"], mu |-> mu]
    ELSE [w |-> W, mu |-> [mu EXCEPT !.w = FALSE]]

MuRLock(W, mu) ==
    IF mu.w THEN [w |-> [W EXCEPT !.fault = "blocked: RLock"], mu |-> mu]
    ELSE [w |-> W, mu |-> [mu EXCEPT !.r = @ + 1]]

MuRUnlock(W, mu) ==
    IF mu.r = 0 THEN [w |-> [W EXCEPT !.fault = "fatal: RUnlock of unlocked RWMutex"], mu |-> mu]
    ELSE [w |-> W, mu |-> [mu EXCEPT !.r = @ - 1]]

\* p.Lock(), p.Unlock(), p.RLock(), p.RUnlock() on profile p
PLock(W, p) ==
    IF W.fault # NoFault THEN W
    ELSE LET r == MuLock(W, W.ps[p].mu) IN [r.w EXCEPT !.ps[p].mu = r.mu]

PUnlock(W, p) ==
    IF W.fault # NoFault THEN W
    ELSE LET r == MuUnlock(W, W.ps[p].mu) IN [r.w EXCEPT !.ps[p].mu = r.mu]

PRLock(W, p) ==
    IF W.fault # NoFault THEN W
    ELSE LET r == MuRLock(W, W.ps[p].mu) IN [r.w EXCEPT !.ps[p].mu = r.mu]

PRUnlock(W, p) ==
    IF W.fault # NoFault THEN W
    ELSE LET r == MuRUnlock(W, W.ps[p].mu) IN [r.w EXCEPT !.ps[p].mu = r.mu]

\* p.stats.Lock(), p.stats.Unlock()
SLock(W, p) ==
    IF W.fault # NoFault THEN W
    ELSE LET r == MuLock(W, W.ps[p].stats.mu) IN [r.w EXCEPT !.ps[p].stats.mu = r.mu]

SUnlock(W, p) ==
    IF W.fault # NoFault THEN W
    ELSE LET r == MuUnlock(W, W.ps[p].stats.mu) IN [r.w EXCEPT !.ps[p].stats.mu = r.mu]

\* g.Lock(), g.Unlock(), g.stats.Lock(), g.stats.Unlock() on group g
GLock(W, g) ==
    IF W.fault # NoFault THEN W
    ELSE LET r == MuLock(W, W.gs[g].mu) IN [r.w EXCEPT !.gs[g].mu = r.mu]

GUnlock(W, g) ==
    IF W.fault # NoFault THEN W
    ELSE LET r == MuUnlock(W, W.gs[g].mu) IN [r.w EXCEPT !.gs[g].mu = r.mu]

GSLock(W, g) ==
    IF W.fault # NoFault THEN W
    ELSE LET r == MuLock(W, W.gs[g].stats.mu) IN [r.w EXCEPT !.gs[g].stats.mu = r.mu]

GSUnlock(W, g) ==
    IF W.fault # NoFault THEN W
    ELSE LET r == MuUnlock(W, W.gs[g].stats.mu) IN [r.w EXCEPT !.gs[g].stats.mu = r.mu]

----------------------------------------------------------------------------
(* Statistics. *)

newGroupStats ==
    [valid |-> FALSE, totalTime |-> 0, effectiveTime |-> 0, nsamples |-> 0,
     mu |-> FreeMu]

\* newProfileStats that starts invalid
newProfileStatsInvalid ==
    [valid |-> FALSE, totalTime |-> 0, effectiveTime |-> 0, meanTime |-> 0,
     nsamples |-> 0, timeslice |-> FloatZero, taken |-> FloatZero,
     samples |-> <<>>, mu |-> FreeMu]

newProfileStats ==
    [valid |-> TRUE, totalTime |-> 0, effectiveTime |-> 0, meanTime |-> 0,
     nsamples |-> 0, timeslice |-> FloatZero, taken |-> FloatZero,
     samples |-> <<>>, mu |-> FreeMu]

newSample(start, end) == [start |-> start, end |-> end]

getDurationNano(sample) == sample.end - sample.start

RECURSIVE SumOver(_, _, _)
\* the sum of f[i].stats.<field> over the profiles in set S
SumOver(ps, S, field) ==
    IF S = {} THEN 0
    ELSE LET p == CHOOSE x \in S : TRUE
         IN  (CASE field = "totalTime" -> ps[p].stats.totalTime
                [] field = "effectiveTime" -> ps[p].stats.effectiveTime
                [] field = "nsamples" -> ps[p].stats.nsamples)
             + SumOver(ps, S \ {p}, field)

RECURSIVE SumDurations(_)
SumDurations(samples) ==
    IF samples = <<>> THEN 0
    ELSE getDurationNano(Head(samples)) + SumDurations(Tail(samples))

\* invalidate that leaves the ancestors alone
invalidateOnlySelf(ps, p) == [ps EXCEPT ![p].stats.valid = FALSE]

RECURSIVE invalidate(_, _)
\* profileStats.invalidate: the node, then every ancestor
invalidate(ps, p) ==
    LET ps1 == [ps EXCEPT ![p].stats.valid = FALSE]
        pp == ps[p].parent
    IN  IF pp # NIL THEN invalidate(ps1, pp) ELSE ps1

\* registerSample that marks nothing invalid
registerSampleNoInvalidate(W, p, sample) ==
    LET ps1 == W.ps
        s == ps1[p].stats
        duration == getDurationNano(sample)
        eff == s.effectiveTime + (duration \div ps1[p].nThreads)
    IN  IF ps1[p].memory
        THEN [W EXCEPT !.ps = [ps1 EXCEPT ![p].stats.samples = Append(@, sample),
                                          ![p].stats.nsamples = @ + 1]]
        ELSE [W EXCEPT !.ps = [ps1 EXCEPT ![p].stats.nsamples = @ + 1,
                                          ![p].stats.totalTime = @ + duration,
                                          ![p].stats.effectiveTime = eff,
                                          ![p].stats.meanTime = eff \div (s.nsamples + 1),
                                          ![p].stats.valid = TRUE]]

\* profileStats.registerSample on the statistics of profile p
registerSample(W, p, sample) ==
    LET ps1 == invalidate(W.ps, p)
        s == ps1[p].stats
        duration == getDurationNano(sample)
        eff == s.effectiveTime + (duration \div ps1[p].nThreads)
    IN  IF ps1[p].memory
        THEN [W EXCEPT !.ps = [ps1 EXCEPT ![p].stats.samples = Append(@, sample),
                                          ![p].stats.nsamples = @ + 1]]
        ELSE [W EXCEPT !.ps = [ps1 EXCEPT ![p].stats.nsamples = @ + 1,
                                          ![p].stats.totalTime = @ + duration,
                                          ![p].stats.effectiveTime = eff,
                                          ![p].stats.meanTime = eff \div (s.nsamples + 1),
                                          ![p].stats.valid = TRUE]]

RECURSIVE setShares(_, _, _, _)
\* the second loop of an update: the shares of the children S in the sums
setShares(ps, S, eff, n) ==
    IF S = {} THEN ps
    ELSE LET q == CHOOSE x \in S : TRUE
         IN  setShares([ps EXCEPT
                          ![q].stats.timeslice = FloatDiv(ps[q].stats.effectiveTime, eff),
                          ![q].stats.taken = FloatDiv(ps[q].stats.nsamples, n)],
                       S \ {q}, eff, n)

\* compositeSums with totalTime and effectiveTime left as they were before
\* the loop, the way nsamples is
compositeSumsNoReset(ps, p) ==
    LET kids == Range(ps[p].subProfiles)
    IN  [totalTime |-> ps[p].stats.totalTime + SumOver(ps, kids, "totalTime"),
         effectiveTime |-> ps[p].stats.effectiveTime + SumOver(ps, kids, "effectiveTime"),
         nsamples |-> ps[p].stats.nsamples + SumOver(ps, kids, "nsamples")]

\* the first loop of the composite branch of profileStats.update
compositeSums(ps, p) ==
    LET kids == Range(ps[p].subProfiles)
    IN  [totalTime |-> SumOver(ps, kids, "totalTime"),
         effectiveTime |-> SumOver(ps, kids, "effectiveTime"),
         nsamples |-> ps[p].stats.nsamples + SumOver(ps, kids, "nsamples")]

\* profileStats.update that leaves a recomputed composite marked invalid
statsUpdateStaysInvalid(W, p) ==
    LET s == W.ps[p].stats IN
    IF W.fault # NoFault \/ s.valid THEN W
    ELSE IF ~W.ps[p].composite THEN
        IF ~W.ps[p].memory THEN [W EXCEPT !.ps[p].stats.valid = TRUE]
        ELSE LET n == Len(s.samples)
                 total == SumDurations(s.samples)
                 eff == IF n < W.ps[p].nThreads THEN total \div n
                        ELSE total \div W.ps[p].nThreads
             IN  IF n = 0
                 THEN [W EXCEPT !.ps[p].stats =
                          [s EXCEPT !.valid = TRUE, !.totalTime = 0, !.effectiveTime = 0,
                                    !.nsamples = 0, !.meanTime = 0, !.timeslice = FloatZero]]
                 ELSE [W EXCEPT !.ps[p].stats =
                          [s EXCEPT !.valid = TRUE, !.totalTime = total,
                                    !.effectiveTime = eff, !.nsamples = n,
                                    !.meanTime = eff \div n]]
    ELSE LET sums == compositeSums(W.ps, p)
             kids == Range(W.ps[p].subProfiles)
             own == [s EXCEPT !.valid = FALSE, !.totalTime = sums.totalTime,
                              !.effectiveTime = sums.effectiveTime,
                              !.nsamples = sums.nsamples]
         IN  IF sums.nsamples = 0
             \* s.effectiveTime / s.nsamples: integer divide by zero
             THEN [W EXCEPT !.ps[p].stats = own,
                            !.fault = "panic: integer divide by zero"]
             ELSE [W EXCEPT !.ps =
                     setShares([W.ps EXCEPT ![p].stats =
                                  [own EXCEPT !.meanTime = sums.effectiveTime \div sums.nsamples]],
                               kids, sums.effectiveTime, sums.nsamples)]

\* profileStats.update on the statistics of profile p
statsUpdate(W, p) ==
    LET s == W.ps[p].stats IN
    IF W.fault # NoFault \/ s.valid THEN W
    ELSE IF ~W.ps[p].composite THEN
        IF ~W.ps[p].memory THEN [W EXCEPT !.ps[p].stats.valid = TRUE]
        ELSE LET n == Len(s.samples)
                 total == SumDurations(s.samples)
                 eff == IF n < W.ps[p].nThreads THEN total \div n
                        ELSE total \div W.ps[p].nThreads
             IN  IF n = 0
                 THEN [W EXCEPT !.ps[p].stats =
                          [s EXCEPT !.valid = TRUE, !.totalTime = 0, !.effectiveTime = 0,
                                    !.nsamples = 0, !.meanTime = 0, !.timeslice = FloatZero]]
                 ELSE [W EXCEPT !.ps[p].stats =
                          [s EXCEPT !.valid = TRUE, !.totalTime = total,
                                    !.effectiveTime = eff, !.nsamples = n,
                                    !.meanTime = eff \div n]]
    ELSE LET sums == compositeSums(W.ps, p)
             kids == Range(W.ps[p].subProfiles)
             own == [s EXCEPT !.valid = TRUE, !.totalTime = sums.totalTime,
                              !.effectiveTime = sums.effectiveTime,
                              !.nsamples = sums.nsamples]
         IN  IF sums.nsamples = 0
             \* s.effectiveTime / s.nsamples: integer divide by zero
             THEN [W EXCEPT !.ps[p].stats = own,
                            !.fault = "panic: integer divide by zero"]
             ELSE [W EXCEPT !.ps =
                     setShares([W.ps EXCEPT ![p].stats =
                                  [own EXCEPT !.meanTime = sums.effectiveTime \div sums.nsamples]],
                               kids, sums.effectiveTime, sums.nsamples)]

\* groupStats.update on the statistics of group g
groupStatsUpdate(W, g) ==
    LET s == W.gs[g].stats
        kids == Range(W.gs[g].profiles)
        total == SumOver(W.ps, kids, "totalTime")
        eff == SumOver(W.ps, kids, "effectiveTime")
        n == SumOver(W.ps, kids, "nsamples")
    IN  IF W.fault # NoFault \/ s.valid THEN W
        ELSE [W EXCEPT
                !.gs[g].stats = [s EXCEPT !.valid = TRUE, !.totalTime = total,
                                          !.effectiveTime = eff, !.nsamples = n],
                !.ps = setShares(W.ps, kids, eff, n)]

----------------------------------------------------------------------------
(* Builders. *)

\* NewProfileBuilder: the builder it returns
NewProfileBuilder ==
    [parentGroup |-> NIL, parentProfile |-> NIL, composite |-> FALSE,
     memory |-> FALSE, nThreads |-> 1]

\* ProfileBuilder.Copy: the group is not copied
Copy(pb) ==
    [parentGroup |-> NIL, parentProfile |-> pb.parentProfile,
     composite |-> pb.composite, memory |-> pb.memory, nThreads |-> pb.nThreads]

WithParentGroup(pb, g) == [pb EXCEPT !.parentGroup = g, !.parentProfile = NIL]

WithParentProfile(pb, p) == [pb EXCEPT !.parentProfile = p, !.parentGroup = NIL]

AddComposition(pb) == [pb EXCEPT !.composite = TRUE]

\* RemoveComposition that leaves the flag as it is
RemoveCompositionKeeps(pb) == pb

RemoveComposition(pb) == [pb EXCEPT !.composite = FALSE]

AddMemory(pb) == [pb EXCEPT !.memory = TRUE]

RemoveMemory(pb) == [pb EXCEPT !.memory = FALSE]

AddMultiThreading(pb) == [pb EXCEPT !.nThreads = cores]

RemoveMultiThreading(pb) == [pb EXCEPT !.nThreads = 1]

WithNThreads(pb, n) ==
    LET n1 == IF n <= 0 THEN 1 ELSE n
        n2 == IF n1 > cores THEN cores ELSE n1
    IN  [pb EXCEPT !.nThreads = n2]

\* WithNCores that stores the request as it comes
WithNCoresRaw(pb, n) == [pb EXCEPT !.nThreads = n]

WithNCores(pb, n) == [pb EXCEPT !.nThreads = IF n <= 0 THEN 1 ELSE n]

----------------------------------------------------------------------------
(* The profile tree. *)

\* ProfileSt.unsafeMakeComposite
unsafeMakeComposite(W, p) ==
    IF W.ps[p].composite THEN W
    ELSE [W EXCEPT !.ps[p].composite = TRUE,
                   !.ps[p].subProfiles = EmptyMap,
                   !.ps[p].stats = newProfileStats]

\* addProfile storing sp whether or not p has a child of that name
addProfileOverwrite(W, p, sp) ==
    LET W1 == IF ~W.ps[p].composite THEN unsafeMakeComposite(W, p) ELSE W
    IN  [w |-> [W1 EXCEPT !.ps[sp].parent = p,
                          !.ps[p].subProfiles = Put(@, W1.ps[sp].name, sp)],
         ret |-> sp]

\* ProfileSt.addProfile: sp becomes a child of p, unless p has one of that name
addProfile(W, p, sp) ==
    LET W1 == IF ~W.ps[p].composite THEN unsafeMakeComposite(W, p) ELSE W
        name == W1.ps[sp].name
    IN  IF name \in DOMAIN W1.ps[p].subProfiles
        THEN [w |-> W1, ret |-> W1.ps[p].subProfiles[name]]
        ELSE [w |-> [W1 EXCEPT !.ps[sp].parent = p,
                               !.ps[p].subProfiles = Put(@, name, sp)],
              ret |-> sp]

\* GroupSt.addProfile storing p whether or not g has a profile of that name
groupAddProfileOverwrite(W, g, p) ==
    [w |-> [W EXCEPT !.ps[p].parent = NIL,
                     !.gs[g].profiles = Put(@, W.ps[p].name, p)],
     ret |-> p]

\* GroupSt.addProfile
groupAddProfile(W, g, p) ==
    LET name == W.ps[p].name
    IN  IF name \in DOMAIN W.gs[g].profiles
        THEN [w |-> W, ret |-> W.gs[g].profiles[name]]
        ELSE [w |-> [W EXCEPT !.ps[p].parent = NIL,
                              !.gs[g].profiles = Put(@, name, p)],
              ret |-> p]

\* ProfileBuilder.NewProfile on builder b.  A candidate that addProfile
\* discards is garbage when the call returns and leaves the heap.
NewProfile(W, b, pname) ==
    LET pb == W.bs[b]
        pid == Len(W.ps) + 1
        bid == Len(W.bs) + 1
        p == [name |-> pname, parent |-> pb.parentProfile, composite |-> pb.composite,
              memory |-> pb.memory, nThreads |-> pb.nThreads, builder |-> bid,
              subProfiles |-> EmptyMap, stats |-> newProfileStats, mu |-> FreeMu]
        W1 == [W EXCEPT !.ps = Append(@, p),
                        !.bs = Append(@, WithParentProfile(RemoveComposition(Copy(pb)), pid))]
    IN  IF pb.parentProfile # NIL
        THEN LET W2 == PLock(W1, pb.parentProfile)
                 r == addProfile(W2, pb.parentProfile, pid)
                 W3 == PUnlock(r.w, pb.parentProfile)
             IN  IF W2.fault # NoFault THEN [w |-> W2, ret |-> NIL]
                 ELSE IF r.ret = pid THEN [w |-> W3, ret |-> pid]
                 ELSE [w |-> [W3 EXCEPT !.ps = SubSeq(@, 1, pid - 1),
                                        !.bs = SubSeq(@, 1, bid - 1)],
                       ret |-> r.ret]
        ELSE IF pb.parentGroup # NIL
        THEN [w |-> groupAddProfile(W1, pb.parentGroup, pid).w, ret |-> pid]
        ELSE [w |-> W1, ret |-> pid]

\* ProfileSt.Profile up to its test of ok: the lookup under the read lock
ProfileProbe(W, p, pname) ==
    LET W1 == PRLock(W, p)
        ok == pname \in DOMAIN W1.ps[p].subProfiles
    IN  [w |-> PRUnlock(W1, p), ok |-> ok,
         ret |-> IF ok THEN W1.ps[p].subProfiles[pname] ELSE NIL]

\* ProfileSt.Profile
ProfileSt_Profile(W, p, pname) ==
    LET r == ProfileProbe(W, p, pname)
    IN  IF r.w.fault # NoFault THEN [w |-> r.w, ret |-> NIL]
        ELSE IF r.ok THEN [w |-> r.w, ret |-> r.ret]
        ELSE NewProfile(r.w, r.w.ps[p].builder, pname)

\* newGroup
newGroup(W, gname) ==
    IF gname \in DOMAIN W.gg THEN [w |-> W, ret |-> W.gg[gname]]
    ELSE LET gid == Len(W.gs) + 1
             bid == Len(W.bs) + 1
             g == [name |-> gname, profiles |-> EmptyMap, builder |-> bid,
                   stats |-> newGroupStats, mu |-> FreeMu]
         IN  [w |-> [W EXCEPT !.gs = Append(@, g),
                              !.bs = Append(@, WithParentGroup(NewProfileBuilder, gid)),
                              !.gg = Put(@, gname, gid)],
              ret |-> gid]

\* Group
Group(W, gname) ==
    IF gname \in DOMAIN W.gg THEN [w |-> W, ret |-> W.gg[gname]]
    ELSE newGroup(W, gname)

\* GroupSt.Profile
GroupSt_Profile(W, g, pname) ==
    LET W1 == GLock(W, g)
        r == IF pname \in DOMAIN W1.gs[g].profiles
             THEN [w |-> W1, ret |-> W1.gs[g].profiles[pname]]
             ELSE NewProfile(W1, W1.gs[g].builder, pname)
    IN  IF W1.fault # NoFault THEN [w |-> W1, ret |-> NIL]
        ELSE [w |-> GUnlock(r.w, g), ret |-> r.ret]

\* GroupSt.Builder
GroupSt_Builder(W, g) == W.gs[g].builder

\* GroupSt.SetBuilder
GroupSt_SetBuilder(W, g, b) ==
    [W EXCEPT !.bs[b].parentProfile = NIL, !.gs[g].builder = b]

\* ProfileSt.SetBuilder
ProfileSt_SetBuilder(W, p, b) ==
    LET W1 == PLock(W, p)
    IN  IF W1.fault # NoFault THEN W1
        ELSE PUnlock([W1 EXCEPT !.bs[b].parentProfile = p, !.ps[p].builder = b], p)

RECURSIVE lockEach(_, _), unlockEach(_, _)
\* the loop of ProfileSt.recursiveLock over the children S
lockEach(W, S) ==
    IF S = {} THEN W
    ELSE LET q == CHOOSE x \in S : TRUE IN lockEach(SLock(PLock(W, q), q), S \ {q})

\* the loop of ProfileSt.recursiveUnlock over the children S
unlockEach(W, S) ==
    IF S = {} THEN W
    ELSE LET q == CHOOSE x \in S : TRUE IN unlockEach(SUnlock(PUnlock(W, q), q), S \ {q})

\* ProfileSt.recursiveLock
recursiveLock(W, p) ==
    LET W1 == SLock(PLock(W, p), p) IN lockEach(W1, Range(W1.ps[p].subProfiles))

\* ProfileSt.recursiveUnlock
recursiveUnlock(W, p) ==
    SUnlock(PUnlock(unlockEach(W, Range(W.ps[p].subProfiles)), p), p)

\* ProfileSt.MakeComposite after its recursiveLock, the deferred
\* recursiveUnlock included
MakeCompositeLocked(W1, p) ==
    IF W1.ps[p].composite THEN recursiveUnlock(W1, p)
    ELSE LET W2 == SUnlock(W1, p)
             W3 == [W2 EXCEPT !.ps[p].composite = TRUE,
                              !.ps[p].subProfiles = EmptyMap,
                              !.ps[p].stats = newProfileStats]
         IN  recursiveUnlock(SLock(W3, p), p)

\* MakeComposite that keeps the Stats of the leaf it converts
MakeCompositeKeepStats(W, p) ==
    LET W1 == recursiveLock(W, p)
    IN  IF W1.fault # NoFault THEN W1
        ELSE IF W1.ps[p].composite THEN recursiveUnlock(W1, p)
        ELSE recursiveUnlock([W1 EXCEPT !.ps[p].composite = TRUE,
                                        !.ps[p].subProfiles = EmptyMap], p)

\* ProfileSt.MakeComposite
MakeComposite(W, p) ==
    LET W1 == recursiveLock(W, p)
    IN  IF W1.fault # NoFault THEN W1 ELSE MakeCompositeLocked(W1, p)

\* ProfileSt.Builder
Builder(W, p) ==
    LET W1 == PRLock(W, p)
    IN  IF W1.fault # NoFault THEN [w |-> W1, ret |-> NIL]
        ELSE IF W1.ps[p].composite
        THEN [w |-> PRUnlock(W1, p), ret |-> W1.ps[p].builder]
        ELSE LET W2 == PUnlock(W1, p)
                 W3 == recursiveLock(W2, p)
                 W4 == unsafeMakeComposite(W3, p)
             IN  IF W3.fault # NoFault THEN [w |-> W3, ret |-> NIL]
                 ELSE [w |-> recursiveUnlock(W4, p), ret |-> W4.ps[p].builder]

----------------------------------------------------------------------------
(* Timers. *)

\* ProfileSt.StartTimer
StartTimer(p, now) == [profile |-> p, conds |-> <<>>, start |-> now, end |-> now]

\* registerTimerHead registering on a leaf whatever the condition is
registerTimerHeadAnyCond(W, p, t) ==
    IF Len(t.conds) > 1
    THEN [w |-> W, call |-> TRUE, cond |-> t.conds[1], conds |-> Tail(t.conds)]
    ELSE LET W1 == PLock(W, p) IN
         IF ~W1.ps[p].composite
         THEN LET W3 == registerSample(SLock(W1, p), p, newSample(t.start, t.end))
              IN  [w |-> SUnlock(PUnlock(W3, p), p), call |-> FALSE,
                   cond |-> t.conds[1], conds |-> t.conds]
         ELSE [w |-> PUnlock(W1, p), call |-> TRUE, cond |-> t.conds[1],
               conds |-> <<default_condition_name>>]

\* registerTimer from its entry to its return (call = FALSE) or to its call
\* of p.Profile(cond) (call = TRUE), with the conds the timer then carries
registerTimerHead(W, p, t) ==
    IF Len(t.conds) > 1
    THEN [w |-> W, call |-> TRUE, cond |-> t.conds[1], conds |-> Tail(t.conds)]
    ELSE LET W1 == PLock(W, p) IN
         IF W1.fault # NoFault
         THEN [w |-> W1, call |-> FALSE, cond |-> "", conds |-> t.conds]
         ELSE IF t.conds = <<>>
         THEN [w |-> [W1 EXCEPT !.fault = "panic: index out of range"],
               call |-> FALSE, cond |-> "", conds |-> t.conds]
         ELSE LET cond == t.conds[1] IN
              IF ~W1.ps[p].composite
              THEN IF cond # default_condition_name
                   THEN [w |-> PUnlock(unsafeMakeComposite(W1, p), p), call |-> TRUE,
                         cond |-> cond, conds |-> <<default_condition_name>>]
                   ELSE LET W2 == SLock(W1, p)
                            W3 == registerSample(W2, p, newSample(t.start, t.end))
                        IN  [w |-> SUnlock(PUnlock(W3, p), p), call |-> FALSE,
                             cond |-> cond, conds |-> t.conds]
              ELSE [w |-> PUnlock(W1, p), call |-> TRUE, cond |-> cond,
                    conds |-> <<default_condition_name>>]

\* the calls after which registerTimer is certainly back on a profile it has
\* been on with the same conds and the same tree: every call uses up a
\* segment or moves on to another profile of the heap
CallLimit(W, t) == Len(W.ps) + Len(t.conds) + 2

RECURSIVE registerTimerFrom(_, _, _, _)
\* ProfileSt.registerTimer as the depth-th call of itself; a recursion that
\* never returns ends the process when the stack is used up
registerTimerFrom(W, p, t, depth) ==
    LET h == registerTimerHead(W, p, t) IN
    IF h.w.fault # NoFault \/ ~h.call THEN h.w
    ELSE LET r == ProfileSt_Profile(h.w, p, h.cond)
         IN  IF r.w.fault # NoFault THEN r.w
             ELSE IF depth > CallLimit(W, t)
             THEN [r.w EXCEPT !.fault = "fatal: stack overflow"]
             ELSE registerTimerFrom(r.w, r.ret, [t EXCEPT !.conds = h.conds], depth + 1)

\* ProfileSt.registerTimer
registerTimer(W, p, t) == registerTimerFrom(W, p, t, 0)

\* Stop naming the profile's own name as the condition
StopAsOwnName(W, t, now) ==
    registerTimer(W, t.profile, [t EXCEPT !.end = now, !.conds = <<W.ps[t.profile].name>>])

\* Timer.Stop
Stop(W, t, now) ==
    registerTimer(W, t.profile, [t EXCEPT !.end = now, !.conds = <<default_condition_name>>])

\* Timer.StopAs
StopAs(W, t, conds, now) ==
    registerTimer(W, t.profile, [t EXCEPT !.end = now, !.conds = conds])

----------------------------------------------------------------------------
(* Update passes. *)

RECURSIVE profileUpdate(_, _), updateEach(_, _)
\* the loop of ProfileSt.update (and of GroupSt.update) over the profiles S;
\* a panic in one update ends the loop
updateEach(W, S) ==
    IF S = {} \/ W.fault # NoFault THEN W
    ELSE LET q == CHOOSE x \in S : TRUE IN updateEach(profileUpdate(W, q), S \ {q})

\* ProfileSt.update
profileUpdate(W, p) == statsUpdate(updateEach(W, Range(W.ps[p].subProfiles)), p)

\* the part of ProfileSt.Print that acts on the tree: the locks and
\* updateAndCopy (the copy reads only); a panic leaves the locks held
ProfileSt_Print(W, p) == recursiveUnlock(profileUpdate(recursiveLock(W, p), p), p)

RECURSIVE groupLockEach(_, _), groupUnlockEach(_, _)
groupLockEach(W, S) ==
    IF S = {} THEN W
    ELSE LET q == CHOOSE x \in S : TRUE IN groupLockEach(recursiveLock(W, q), S \ {q})

groupUnlockEach(W, S) ==
    IF S = {} THEN W
    ELSE LET q == CHOOSE x \in S : TRUE IN groupUnlockEach(recursiveUnlock(W, q), S \ {q})

\* GroupSt.recursiveLock
groupRecursiveLock(W, g) ==
    LET W1 == GSLock(GLock(W, g), g) IN groupLockEach(W1, Range(W1.gs[g].profiles))

\* GroupSt.recursiveUnlock
groupRecursiveUnlock(W, g) ==
    GUnlock(GSUnlock(groupUnlockEach(W, Range(W.gs[g].profiles)), g), g)

\* GroupSt.update
groupUpdate(W, g) == groupStatsUpdate(updateEach(W, Range(W.gs[g].profiles)), g)

\* the part of GroupSt.Print that acts on the tree
GroupSt_Print(W, g) == groupRecursiveUnlock(groupUpdate(groupRecursiveLock(W, g), g), g)

----------------------------------------------------------------------------
(* The state machine: calls of the public API, one at a time. *)

World == [gg |-> ggroups, gs |-> groups, ps |-> profiles, bs |-> builders,
          fault |-> fault]

SetWorld(W) ==
    /\ ggroups' = W.gg
    /\ groups' = W.gs
    /\ profiles' = W.ps
    /\ builders' = W.bs
    /\ fault' = W.fault

EmptyWorld == [gg |-> EmptyMap, gs |-> <<>>, ps |-> <<>>, bs |-> <<>>, fault |-> NoFault]

Pids == 1..Len(profiles)
Gids == 1..Len(groups)
Bids == 1..Len(builders)

\* the k-th sample registered lasts 2^(k-1): every set of samples has its own
\* sum, so a total names the samples it counts
Durations == {2 ^ nreg}

\* condition paths of one and of two segments
Paths == {<<c>> : c \in Names} \cup {<<c1, c2>> : c1 \in Names, c2 \in Names}

Running == fault = NoFault

\* the world after Group(gname) and Group(gname).Builder().AddMultiThreading(),
\* with AddComposition() if c and AddMemory() if m
Configured(gname, c, m) ==
    LET r == Group(EmptyWorld, gname)
        b == r.w.gs[r.ret].builder
        pb0 == AddMultiThreading(r.w.bs[b])
        pb1 == IF c THEN AddComposition(pb0) ELSE pb0
        pb2 == IF m THEN AddMemory(pb1) ELSE pb1
    IN  [r.w EXCEPT !.bs[b] = pb2]

InitWorld(W) ==
    /\ ggroups = W.gg
    /\ groups = W.gs
    /\ profiles = W.ps
    /\ builders = W.bs
    /\ fault = W.fault

Init ==
    /\ \E gname \in GroupNames, c \in BOOLEAN, m \in BOOLEAN :
          InitWorld(Configured(gname, c, m))
    /\ nreg = 0
    /\ durs = <<>>
    /\ threads = <<>>

\* g.Profile(pname)
DoGroupProfile(g, pname) ==
    /\ Running
    /\ LET r == GroupSt_Profile(World, g, pname)
       IN  /\ Len(r.w.ps) <= MaxProfiles
           /\ SetWorld(r.w)
    /\ UNCHANGED <<nreg, durs, threads>>

\* p.StartTimer() ... t.Stop(), the sample lasting d
DoStop(p, d) ==
    /\ Running
    /\ nreg < MaxSamples
    /\ LET W == Stop(World, StartTimer(p, 0), d)
       IN  /\ Len(W.ps) <= MaxProfiles
           /\ SetWorld(W)
    /\ nreg' = nreg + 1
    /\ UNCHANGED <<durs, threads>>

\* p.StartTimer() ... t.StopAs(conds...), the sample lasting d
DoStopAs(p, conds, d) ==
    /\ Running
    /\ nreg < MaxSamples
    /\ LET W == StopAs(World, StartTimer(p, 0), conds, d)
       IN  /\ Len(W.ps) <= MaxProfiles
           /\ SetWorld(W)
    /\ nreg' = nreg + 1
    /\ UNCHANGED <<durs, threads>>

\* p.Print(): an update pass on profile p
DoPrint(p) ==
    /\ Running
    /\ SetWorld(ProfileSt_Print(World, p))
    /\ UNCHANGED <<nreg, durs, threads>>

\* g.Print(): an update pass on group g
DoGroupPrint(g) ==
    /\ Running
    /\ SetWorld(GroupSt_Print(World, g))
    /\ UNCHANGED <<nreg, durs, threads>>

Next ==
    \/ \E g \in Gids, pname \in Names : DoGroupProfile(g, pname)
    \/ \E p \in Pids, d \in Durations : DoStop(p, d)
    \/ \E p \in Pids, conds \in Paths, d \in Durations : DoStopAs(p, conds, d)
    \/ \E p \in Pids : DoPrint(p)
    \/ \E g \in Gids : DoGroupPrint(g)

Spec == Init /\ [][Next]_vars

----------------------------------------------------------------------------
(* One leaf profile under a group: registrations and update passes, with    *)
(* durs the durations registered so far.                                   *)

\* the world after Group(gname).Builder().WithNCores(n), with AddMemory() if
\* m, and then Group(gname).Profile(pname)
OneLeaf(gname, pname, m, n) ==
    LET r == Group(EmptyWorld, gname)
        b == r.w.gs[r.ret].builder
        pb0 == WithNCores(r.w.bs[b], n)
        pb1 == IF m THEN AddMemory(pb0) ELSE pb0
    IN  GroupSt_Profile([r.w EXCEPT !.bs[b] = pb1], r.ret, pname).w

LeafInit ==
    /\ \E m \in BOOLEAN, n \in 1..MaxLeafThreads : InitWorld(OneLeaf("g", "a", m, n))
    /\ nreg = 0
    /\ durs = <<>>
    /\ threads = <<>>

\* p.StartTimer() ... t.Stop() on the leaf, the sample lasting d
LeafStop(p, d) ==
    /\ Running
    /\ Len(durs) < MaxLeafSamples
    /\ SetWorld(Stop(World, StartTimer(p, 0), d))
    /\ durs' = Append(durs, d)
    /\ nreg' = nreg + 1
    /\ UNCHANGED threads

\* p.Print() on the leaf
LeafPrint(p) ==
    /\ Running
    /\ SetWorld(ProfileSt_Print(World, p))
    /\ UNCHANGED <<nreg, durs, threads>>

\* p.StartTimer() ... t.StopAs() with no condition at all
LeafStopAsNothing(p, d) ==
    /\ Running
    /\ SetWorld(StopAs(World, StartTimer(p, 0), <<>>, d))
    /\ UNCHANGED <<nreg, durs, threads>>

LeafNext ==
    \/ \E p \in Pids, d \in 1..MaxLeafDur : LeafStop(p, d)
    \/ \E p \in Pids : LeafPrint(p)
    \/ \E p \in Pids, d \in 1..MaxLeafDur : LeafStopAsNothing(p, d)

SpecLeaf == LeafInit /\ [][LeafNext]_vars

----------------------------------------------------------------------------
(* Views of the tree that the properties are stated with. *)

Kids(ps, p) == Range(ps[p].subProfiles)

RECURSIVE TakenSum(_, _)
\* the sum of the taken shares of the profiles S, as a fraction
TakenSum(ps, S) ==
    IF S = {} THEN <<0, 1>>
    ELSE LET q == CHOOSE x \in S : TRUE
             x == ps[q].stats.taken
             r == TakenSum(ps, S \ {q})
         IN  <<x[1] * r[2] + r[1] * x[2], x[2] * r[2]>>

IsOne(r) == r[2] # 0 /\ r[1] = r[2]

\* the world after an update pass on profile p, and on group g
AfterPrint(p) == ProfileSt_Print(World, p)
AfterGroupPrint(g) == GroupSt_Print(World, g)

Composites == {p \in Pids : profiles[p].composite}
Leaves == {p \in Pids : ~profiles[p].composite}

\* No call of the sequential specification faults, and every lock is free
\* between two calls.
NeverFaults == fault = NoFault

LocksFree ==
    Running =>
      /\ \A p \in Pids : profiles[p].mu = FreeMu /\ profiles[p].stats.mu = FreeMu
      /\ \A g \in Gids : groups[g].mu = FreeMu /\ groups[g].stats.mu = FreeMu

----------------------------------------------------------------------------
C2_GroupIsCompositeRoot ==
    \A g \in Gids :
        Running =>
          LET W == AfterGroupPrint(g)
              roots == Range(W.gs[g].profiles)
              s == W.gs[g].stats
          IN  W.fault = NoFault =>
                /\ s.totalTime = SumOver(W.ps, roots, "totalTime")
                /\ s.effectiveTime = SumOver(W.ps, roots, "effectiveTime")
                /\ s.nsamples = SumOver(W.ps, roots, "nsamples")
                /\ \A q \in roots :
                     /\ s.effectiveTime > 0 =>
                           W.ps[q].stats.timeslice =
                              FloatDiv(W.ps[q].stats.effectiveTime, s.effectiveTime)
                     /\ s.nsamples > 0 =>
                           W.ps[q].stats.taken = FloatDiv(W.ps[q].stats.nsamples, s.nsamples)

\* C3: whatever Stop, StopAs and update passes came before, an update pass on
\* a composite profile completes and leaves its totalTime and effectiveTime
\* equal to the sums of its children's.
C3_CompositeTimesAreChildrenSums ==
    \A p \in Composites :
        Running =>
          LET W == AfterPrint(p)
          IN  /\ W.fault = NoFault
              /\ W.ps[p].stats.totalTime = SumOver(W.ps, Kids(W.ps, p), "totalTime")
              /\ W.ps[p].stats.effectiveTime = SumOver(W.ps, Kids(W.ps, p), "effectiveTime")

\* C3 witness: a composite profile recomputed by an update pass after a path
\* stop made its sampled child composite: it counts the later sample alone.
C3_Witness ==
    \E p \in Composites :
        /\ profiles[p].stats.valid
        /\ nreg = 2
        /\ profiles[p].stats.totalTime = 2
        /\ \E q \in Kids(profiles, p) :
              /\ profiles[q].composite
              /\ profiles[q].stats.totalTime = 2
              /\ Kids(profiles, q) # {}

----------------------------------------------------------------------------
RECURSIVE SeqSum(_)
SeqSum(q) == IF q = <<>> THEN 0 ELSE Head(q) + SeqSum(Tail(q))

Min(a, b) == IF a < b THEN a ELSE b

\* C4: a leaf with thread count T that received the N >= 1 samples durs has,
\* after an update pass, totalTime = the sum of durs, effectiveTime =
\* totalTime / min(N, T) and meanTime = effectiveTime / N, retaining or not.
C4_LeafTimes ==
    \A p \in Leaves :
        (Running /\ Len(durs) >= 1) =>
          LET W == AfterPrint(p)
              s == W.ps[p].stats
              N == Len(durs)
              T == W.ps[p].nThreads
          IN  /\ W.fault = NoFault
              /\ s.totalTime = SeqSum(durs)
              /\ s.effectiveTime = s.totalTime \div Min(N, T)
              /\ s.meanTime = s.effectiveTime \div N

\* The leaf times by mode: a retaining leaf has totalTime the sum of the
\* durations and effectiveTime that sum divided by T; a non-retaining leaf
\* has the same total, and for effectiveTime the sum of each duration
\* divided by T.
RECURSIVE SeqSumDiv(_, _)
SeqSumDiv(q, T) == IF q = <<>> THEN 0 ELSE (Head(q) \div T) + SeqSumDiv(Tail(q), T)

LeafTimesByMode ==
    \A p \in Leaves :
        (Running /\ Len(durs) >= 1) =>
          LET W == AfterPrint(p)
              s == W.ps[p].stats
              N == Len(durs)
              T == W.ps[p].nThreads
          IN  /\ W.fault = NoFault
              /\ s.totalTime = SeqSum(durs)
              /\ s.nsamples = N
              /\ s.meanTime = s.effectiveTime \div N
              /\ s.effectiveTime = IF W.ps[p].memory THEN s.totalTime \div Min(N, T)
                                   ELSE SeqSumDiv(durs, T)

----------------------------------------------------------------------------
RECURSIVE SubtreeSamples(_, _), SubtreeSamplesOf(_, _)
\* the samples held by the leaves of the subtree of p
SubtreeSamples(ps, p) ==
    IF ~ps[p].composite THEN ps[p].stats.nsamples
    ELSE SubtreeSamplesOf(ps, Kids(ps, p))

SubtreeSamplesOf(ps, S) ==
    IF S = {} THEN 0
    ELSE LET q == CHOOSE x \in S : TRUE
         IN  SubtreeSamples(ps, q) + SubtreeSamplesOf(ps, S \ {q})

\* the leaves that hold a sample
SampledLeaves == {p \in Leaves : profiles[p].stats.nsamples > 0}

\* the world after p.StartTimer() ... StopAs(a, b) lasting d
AfterStopAs2(p, a, b, d) == StopAs(World, StartTimer(p, 0), <<a, b>>, d)

\* child b of child a of p holds the one sample, or b's default-named child
\* does if b is composite
SampleAtB(W, p, a, b) ==
    /\ a \in DOMAIN W.ps[p].subProfiles
    /\ LET A == W.ps[p].subProfiles[a]
       IN  /\ b \in DOMAIN W.ps[A].subProfiles
           /\ LET B == W.ps[A].subProfiles[b]
              IN  IF ~W.ps[B].composite THEN W.ps[B].stats.nsamples = 1
                  ELSE /\ default_condition_name \in DOMAIN W.ps[B].subProfiles
                       /\ W.ps[W.ps[B].subProfiles[default_condition_name]].stats.nsamples = 1

\* child a of p is a leaf with no child and holds the one sample
SampleAtA(W, p, a) ==
    /\ a \in DOMAIN W.ps[p].subProfiles
    /\ LET A == W.ps[p].subProfiles[a]
       IN  /\ ~W.ps[A].composite
           /\ DOMAIN W.ps[A].subProfiles = {}
           /\ W.ps[A].stats.nsamples = 1

\* C9, the unconditional statement: StopAs(a, b) on a leaf p that holds samples makes p
\* composite, discards its samples, has child a under p and child b under a,
\* registers the one sample at b (or at b's default-named child), and after an
\* update pass p.totalTime is that sample's duration.
C9_PathStopOnSampledLeaf ==
    \A p \in SampledLeaves, a \in Names, b \in Names, d \in Durations :
        Running =>
          LET W == AfterStopAs2(p, a, b, d)
              W2 == ProfileSt_Print(W, p)
          IN  /\ W.fault = NoFault /\ W2.fault = NoFault
              /\ W.ps[p].composite
              /\ SubtreeSamples(W.ps, p) = 1
              /\ SampleAtB(W, p, a, b)
              /\ W2.ps[p].stats.totalTime = d

\* C9, with the default-segment case apart: the same, except that when b is the default segment name
\* and a is a leaf the sample is registered on a itself and a gets no child.
C9_PathStopAmended ==
    \A p \in SampledLeaves, a \in Names, b \in Names, d \in Durations :
        Running =>
          LET W == AfterStopAs2(p, a, b, d)
              W2 == ProfileSt_Print(W, p)
          IN  /\ W.fault = NoFault /\ W2.fault = NoFault
              /\ W.ps[p].composite
              /\ SubtreeSamples(W.ps, p) = 1
              /\ a \in DOMAIN W.ps[p].subProfiles
              /\ IF b = default_condition_name /\ ~W.ps[W.ps[p].subProfiles[a]].composite
                 THEN SampleAtA(W, p, a)
                 ELSE SampleAtB(W, p, a, b)
              /\ W2.ps[p].stats.totalTime = d

\* C9 witness: a leaf that holds a sample, on which StopAs(a, b) with b not
\* the default name can act within the bounds and puts its sample two levels
\* down.
C9_Witness ==
    \E p \in SampledLeaves, a \in Names, b \in Names \ {default_condition_name}, d \in Durations :
        /\ Running
        /\ nreg < MaxSamples
        /\ LET W == AfterStopAs2(p, a, b, d)
           IN  /\ Len(W.ps) <= MaxProfiles
               /\ Len(W.ps) = Len(profiles) + 2
               /\ SampleAtB(W, p, a, b)

----------------------------------------------------------------------------
RECURSIVE Descend(_, _)
\* the leaf reached from p through default-named children, NIL if a composite
\* on the way has none
Descend(ps, p) ==
    IF ~ps[p].composite THEN p
    ELSE IF default_condition_name \in DOMAIN ps[p].subProfiles
    THEN Descend(ps, ps[p].subProfiles[default_condition_name])
    ELSE NIL

RECURSIVE DefaultChain(_, _)
\* p and the profiles below it through default-named children
DefaultChain(ps, p) ==
    {p} \cup (IF ps[p].composite /\ default_condition_name \in DOMAIN ps[p].subProfiles
              THEN DefaultChain(ps, ps[p].subProfiles[default_condition_name])
              ELSE {})

\* C10: Stop() leaves the tree StopAs(default_condition_name) leaves.  On a
\* leaf the sample goes to that leaf and no profile is created; on a composite
\* it goes to the leaf reached through default-named children, and the
\* profiles created are the missing ones of that chain.
C10_StopIsStopAsDefault ==
    \A p \in Pids, d \in Durations :
        Running =>
          LET t == StartTimer(p, 0)
              W == Stop(World, t, d)
              leaf == Descend(W.ps, p)
              old == 1..Len(profiles)
          IN  /\ W = StopAs(World, t, <<default_condition_name>>, d)
              /\ W.fault = NoFault
              /\ leaf # NIL
              /\ ~profiles[p].composite => (leaf = p /\ Len(W.ps) = Len(profiles))
              /\ W.ps[leaf].stats.nsamples =
                    (IF leaf \in old THEN profiles[leaf].stats.nsamples ELSE 0) + 1
              /\ \A q \in 1..Len(W.ps) :
                    /\ (q \in old /\ q # leaf) =>
                          /\ W.ps[q].stats.nsamples = profiles[q].stats.nsamples
                          /\ W.ps[q].stats.samples = profiles[q].stats.samples
                          /\ W.ps[q].subProfiles = profiles[q].subProfiles \/ q \in DefaultChain(W.ps, p)
                    /\ q \notin old => q \in DefaultChain(W.ps, p)

\* C10 witness: a composite profile with no default-named child, on which
\* Stop() can act within the bounds and creates that child.
C10_Witness ==
    \E p \in Composites, d \in Durations :
        /\ Running
        /\ nreg < MaxSamples
        /\ default_condition_name \notin DOMAIN profiles[p].subProfiles
        /\ DOMAIN profiles[p].subProfiles # {}
        /\ LET W == Stop(World, StartTimer(p, 0), d)
           IN  /\ Len(W.ps) = Len(profiles) + 1
               /\ Len(W.ps) <= MaxProfiles
               /\ W.ps[Descend(W.ps, p)].stats.nsamples = 1

----------------------------------------------------------------------------
(* Builders: a group and its profiles, with builders made, installed and   *)
(* asked for.                                                               *)

BuilderInit ==
    /\ \E c \in BOOLEAN : InitWorld(Configured("g", c, FALSE))
    /\ nreg = 0
    /\ durs = <<>>
    /\ threads = <<>>

\* the builders made by NewProfileBuilder: every group and every profile of
\* the heap brought one builder of its own
FreshBuilders == Len(builders) - Len(groups) - Len(profiles)

\* g.SetBuilder(NewProfileBuilder())
BdGroupSetFresh(g) ==
    /\ Running
    /\ FreshBuilders < MaxFreshBuilders
    /\ LET b == Len(builders) + 1
           W == [World EXCEPT !.bs = Append(@, NewProfileBuilder)]
       IN  SetWorld(GroupSt_SetBuilder(W, g, b))
    /\ UNCHANGED <<nreg, durs, threads>>

\* p.SetBuilder(NewProfileBuilder())
BdProfileSetFresh(p) ==
    /\ Running
    /\ FreshBuilders < MaxFreshBuilders
    /\ LET b == Len(builders) + 1
           W == [World EXCEPT !.bs = Append(@, NewProfileBuilder)]
       IN  SetWorld(ProfileSt_SetBuilder(W, p, b))
    /\ UNCHANGED <<nreg, durs, threads>>

\* g.SetBuilder(q.Builder())
BdGroupSetBuilder(g, q) ==
    /\ Running
    /\ LET r == Builder(World, q)
       IN  SetWorld(IF r.w.fault # NoFault THEN r.w ELSE GroupSt_SetBuilder(r.w, g, r.ret))
    /\ UNCHANGED <<nreg, durs, threads>>

\* p.SetBuilder(q.Builder())
BdProfileSetBuilder(p, q) ==
    /\ Running
    /\ LET r == Builder(World, q)
       IN  SetWorld(IF r.w.fault # NoFault THEN r.w ELSE ProfileSt_SetBuilder(r.w, p, r.ret))
    /\ UNCHANGED <<nreg, durs, threads>>

\* p.SetBuilder(g.Builder())
BdProfileSetGroupBuilder(p, g) ==
    /\ Running
    /\ SetWorld(ProfileSt_SetBuilder(World, p, GroupSt_Builder(World, g)))
    /\ UNCHANGED <<nreg, durs, threads>>

\* p.Builder()
BdBuilder(p) ==
    /\ Running
    /\ SetWorld(Builder(World, p).w)
    /\ UNCHANGED <<nreg, durs, threads>>

\* g.Profile(pname)
BdGroupProfile(g, pname) ==
    /\ Running
    /\ LET r == GroupSt_Profile(World, g, pname)
       IN  /\ Len(r.w.ps) <= MaxBuilderProfiles
           /\ SetWorld(r.w)
    /\ UNCHANGED <<nreg, durs, threads>>

\* p.Profile(pname)
BdProfileProfile(p, pname) ==
    /\ Running
    /\ LET r == ProfileSt_Profile(World, p, pname)
       IN  /\ Len(r.w.ps) <= MaxBuilderProfiles
           /\ SetWorld(r.w)
    /\ UNCHANGED <<nreg, durs, threads>>

\* p.StartTimer() ... t.Stop(), the sample lasting d
BdStop(p, d) ==
    /\ Running
    /\ nreg < MaxBuilderSamples
    /\ LET W == Stop(World, StartTimer(p, 0), d)
       IN  /\ Len(W.ps) <= MaxBuilderProfiles
           /\ SetWorld(W)
    /\ nreg' = nreg + 1
    /\ UNCHANGED <<durs, threads>>

BuilderNext ==
    \/ \E g \in Gids : BdGroupSetFresh(g)
    \/ \E p \in Pids : BdProfileSetFresh(p)
    \/ \E g \in Gids, q \in Pids : BdGroupSetBuilder(g, q)
    \/ \E p \in Pids, q \in Pids : BdProfileSetBuilder(p, q)
    \/ \E p \in Pids, g \in Gids : BdProfileSetGroupBuilder(p, g)
    \/ \E p \in Pids : BdBuilder(p)
    \/ \E g \in Gids, pname \in Names : BdGroupProfile(g, pname)
    \/ \E p \in Pids, pname \in Names : BdProfileProfile(p, pname)
    \/ \E p \in Pids, d \in Durations : BdStop(p, d)

SpecBuilder == BuilderInit /\ [][BuilderNext]_vars

\* C7: whatever builders were made and installed before, g.Profile(name) and
\* p.Profile(name) return a profile stored under name in the map of g, of p,
\* and a second call returns the same profile.
C7_ProfileReturnsStoredChild ==
    Running =>
      /\ \A g \in Gids, name \in Names :
            LET r == GroupSt_Profile(World, g, name)
                r2 == GroupSt_Profile(r.w, g, name)
            IN  /\ r.w.fault = NoFault
                /\ name \in DOMAIN r.w.gs[g].profiles
                /\ r.w.gs[g].profiles[name] = r.ret
                /\ r2.ret = r.ret
      /\ \A p \in Pids, name \in Names :
            LET r == ProfileSt_Profile(World, p, name)
                r2 == ProfileSt_Profile(r.w, p, name)
            IN  /\ r.w.fault = NoFault
                /\ name \in DOMAIN r.w.ps[p].subProfiles
                /\ r.w.ps[p].subProfiles[name] = r.ret
                /\ r2.ret = r.ret

\* C7, profiles only: p.Profile(name) returns a profile stored under name in
\* p's own map.
C7_ProfileSide ==
    Running =>
      \A p \in Pids, name \in Names :
         LET r == ProfileSt_Profile(World, p, name)
         IN  /\ r.w.fault = NoFault
             /\ name \in DOMAIN r.w.ps[p].subProfiles
             /\ r.w.ps[p].subProfiles[name] = r.ret

\* C8: Builder() on a leaf profile returns normally with the profile
\* composite, its samples gone, its builder returned and every lock free.
C8_BuilderOnLeafCompletes ==
    \A p \in Leaves :
        Running =>
          LET r == Builder(World, p)
          IN  /\ r.w.fault = NoFault
              /\ r.w.ps[p].composite
              /\ r.w.ps[p].stats.nsamples = 0
              /\ r.ret = profiles[p].builder
              /\ \A q \in 1..Len(r.w.ps) :
                    r.w.ps[q].mu = FreeMu /\ r.w.ps[q].stats.mu = FreeMu

----------------------------------------------------------------------------
(* Concurrent calls: MaxThreads goroutines, each making one call on the     *)
(* group "g" or on its profile "r".  A step is one critical section of the  *)
(* call: no lock is held from one step to the next.                         *)

\* the profile "r" of group "g", and the group
Root == 1
RootGroup == 1

\* the calls a goroutine can make
Programs ==
    <<[op |-> "Group", recv |-> NIL, name |-> "h", path |-> <<>>],
      [op |-> "GProfile", recv |-> RootGroup, name |-> "base", path |-> <<>>],
      [op |-> "GProfile", recv |-> RootGroup, name |-> "a", path |-> <<>>],
      [op |-> "PProfile", recv |-> Root, name |-> "base", path |-> <<>>],
      [op |-> "PProfile", recv |-> Root, name |-> "a", path |-> <<>>],
      [op |-> "StopAs", recv |-> Root, name |-> "", path |-> <<"base">>],
      [op |-> "StopAs", recv |-> Root, name |-> "", path |-> <<"a">>],
      [op |-> "StopAs", recv |-> Root, name |-> "", path |-> <<"base", "base">>],
      [op |-> "StopAs", recv |-> Root, name |-> "", path |-> <<"base", "a">>],
      [op |-> "StopAs", recv |-> Root, name |-> "", path |-> <<"a", "base">>],
      [op |-> "StopAs", recv |-> Root, name |-> "", path |-> <<"a", "a">>]>>

\* goroutine i at the start of its call; the timer of goroutine i lasts 2^(i-1)
Goroutine(i, prog) ==
    [op |-> prog.op, recv |-> prog.recv, name |-> prog.name, path |-> prog.path,
     pc |-> CASE prog.op = "Group" -> "probe"
              [] prog.op = "GProfile" -> "call"
              [] prog.op = "PProfile" -> "probe"
              [] prog.op = "StopAs" -> "head",
     node |-> prog.recv, conds |-> prog.path, dur |-> 2 ^ (i - 1), ret |-> NIL,
     missed |-> FALSE, lostTime |-> 0, lostSamples |-> 0]

\* the world after Group("g"), its builder configured, and Group("g").Profile("r")
ConcWorld(c, m) == GroupSt_Profile(Configured("g", c, m), RootGroup, "r").w

ConcInit ==
    /\ \E c \in BOOLEAN, m \in BOOLEAN : InitWorld(ConcWorld(c, m))
    /\ \E f \in [1..MaxThreads -> 1..Len(Programs)] :
          /\ \A i \in 1..(MaxThreads - 1) : f[i] <= f[i + 1]
          /\ threads = [i \in 1..MaxThreads |-> Goroutine(i, Programs[f[i]])]
    /\ nreg = 0
    /\ durs = <<>>

Tids == DOMAIN threads

AllDone == \A i \in Tids : threads[i].pc = "done"

\* the duration held by profile q
HeldTime(ps, q) ==
    IF ps[q].memory THEN SumDurations(ps[q].stats.samples) ELSE ps[q].stats.totalTime

RECURSIVE DiscardedOver(_, _, _)
\* the time and the samples of the leaves of S that W has made composite
DiscardedOver(ps, W, S) ==
    IF S = {} THEN [time |-> 0, samples |-> 0]
    ELSE LET q == CHOOSE x \in S : TRUE
             rest == DiscardedOver(ps, W, S \ {q})
         IN  IF ~ps[q].composite /\ W.ps[q].composite
             THEN [time |-> rest.time + HeldTime(ps, q),
                   samples |-> rest.samples + ps[q].stats.nsamples]
             ELSE rest

\* goroutine i after a step that leads from the profiles of now to world W
Charged(i, W) ==
    LET d == DiscardedOver(profiles, W, Pids)
    IN  [threads[i] EXCEPT !.lostTime = @ + d.time, !.lostSamples = @ + d.samples]

\* Group: the lookup under ggLock.RLock
CGroupProbe(i) ==
    /\ Running
    /\ threads[i].op = "Group" /\ threads[i].pc = "probe"
    /\ IF threads[i].name \in DOMAIN ggroups
       THEN threads' = [threads EXCEPT ![i].pc = "done", ![i].ret = ggroups[threads[i].name]]
       ELSE threads' = [threads EXCEPT ![i].pc = "create", ![i].missed = TRUE]
    /\ UNCHANGED <<ggroups, groups, profiles, builders, fault, nreg, durs>>

\* Group: newGroup, under ggLock.Lock
CNewGroup(i) ==
    /\ Running
    /\ threads[i].op = "Group" /\ threads[i].pc = "create"
    /\ LET r == newGroup(World, threads[i].name)
       IN  /\ SetWorld(r.w)
           /\ threads' = [threads EXCEPT ![i].pc = "done", ![i].ret = r.ret]
    /\ UNCHANGED <<nreg, durs>>

\* GroupSt.Profile, under g.Lock
CGroupProfile(i) ==
    /\ Running
    /\ threads[i].op = "GProfile" /\ threads[i].pc = "call"
    /\ LET g == threads[i].recv
           r == GroupSt_Profile(World, g, threads[i].name)
       IN  /\ SetWorld(r.w)
           /\ threads' = [threads EXCEPT ![i].pc = "done", ![i].ret = r.ret,
                                         ![i].missed = threads[i].name \notin DOMAIN groups[g].profiles]
    /\ UNCHANGED <<nreg, durs>>

\* ProfileSt.Profile: the lookup under p.RLock, for a caller or for registerTimer
CProbe(i) ==
    /\ Running
    /\ threads[i].op \in {"PProfile", "StopAs"} /\ threads[i].pc = "probe"
    /\ LET r == ProfileProbe(World, threads[i].node, threads[i].name)
       IN  /\ SetWorld(r.w)
           /\ threads' =
                IF ~r.ok THEN [threads EXCEPT ![i].pc = "new", ![i].missed = TRUE]
                ELSE IF threads[i].op = "PProfile"
                THEN [threads EXCEPT ![i].pc = "done", ![i].ret = r.ret]
                ELSE [threads EXCEPT ![i].pc = "head", ![i].node = r.ret]
    /\ UNCHANGED <<nreg, durs>>

\* ProfileSt.Profile: NewProfile on the builder of the profile, the new
\* profile added under the parent's Lock
CNew(i) ==
    /\ Running
    /\ threads[i].op \in {"PProfile", "StopAs"} /\ threads[i].pc = "new"
    /\ LET r == NewProfile(World, profiles[threads[i].node].builder, threads[i].name)
           th == Charged(i, r.w)
       IN  /\ SetWorld(r.w)
           /\ threads' =
                IF threads[i].op = "PProfile"
                THEN [threads EXCEPT ![i] = [th EXCEPT !.pc = "done", !.ret = r.ret]]
                ELSE [threads EXCEPT ![i] = [th EXCEPT !.pc = "head", !.node = r.ret]]
    /\ UNCHANGED <<nreg, durs>>

\* registerTimer up to its return or its call of Profile
CHead(i) ==
    /\ Running
    /\ threads[i].op = "StopAs" /\ threads[i].pc = "head"
    /\ LET t == [profile |-> threads[i].recv, conds |-> threads[i].conds,
                 start |-> 0, end |-> threads[i].dur]
           h == registerTimerHead(World, threads[i].node, t)
           th == Charged(i, h.w)
       IN  /\ SetWorld(h.w)
           /\ threads' =
                IF h.call
                THEN [threads EXCEPT ![i] = [th EXCEPT !.pc = "probe", !.name = h.cond,
                                                       !.conds = h.conds]]
                ELSE [threads EXCEPT ![i] = [th EXCEPT !.pc = "done"]]
    /\ UNCHANGED <<nreg, durs>>

\* Root.Print() once every call has returned
CPrint ==
    /\ Running
    /\ AllDone
    /\ SetWorld(ProfileSt_Print(World, Root))
    /\ UNCHANGED <<nreg, durs, threads>>

ConcNext ==
    \/ \E i \in Tids : CGroupProbe(i)
    \/ \E i \in Tids : CNewGroup(i)
    \/ \E i \in Tids : CGroupProfile(i)
    \/ \E i \in Tids : CProbe(i)
    \/ \E i \in Tids : CNew(i)
    \/ \E i \in Tids : CHead(i)
    \/ CPrint

SpecConc == ConcInit /\ [][ConcNext]_vars

\* the group builder keeps the configuration "r" was made with
RootWasComposite == builders[groups[RootGroup].builder].composite

\* every goroutine stops a timer of the root, no two along the same path
StopsOnDistinctPaths ==
    /\ \A i \in Tids : threads[i].op = "StopAs" /\ threads[i].recv = Root
    /\ \A i \in Tids, j \in Tids : i # j => threads[i].path # threads[j].path

RECURSIVE SumThreads(_, _)
\* the sum of field dur, lostTime or lostSamples over the goroutines S
SumThreads(S, field) ==
    IF S = {} THEN 0
    ELSE LET i == CHOOSE x \in S : TRUE
         IN  (CASE field = "dur" -> threads[i].dur
                [] field = "lostTime" -> threads[i].lostTime
                [] field = "lostSamples" -> threads[i].lostSamples)
             + SumThreads(S \ {i}, field)

RECURSIVE Norm(_)
\* a path without its trailing default segments, its first segment kept
Norm(path) ==
    IF Len(path) > 1 /\ path[Len(path)] = default_condition_name
    THEN Norm(SubSeq(path, 1, Len(path) - 1))
    ELSE path

IsProperPrefix(a, b) == Len(a) < Len(b) /\ SubSeq(b, 1, Len(a)) = a

\* no goroutine's path leads through the leaf another one registers on
IndependentPaths ==
    \A i \in Tids, j \in Tids : ~IsProperPrefix(Norm(threads[i].path), Norm(threads[j].path))

\* C5, the unconditional statement: when the goroutines have stopped their timers of a composite
\* root along distinct paths, under any interleaving, an update pass on the
\* root gives it the sum of all the durations as totalTime, and its subtree
\* holds one sample for each goroutine.
C5_ConcurrentStopsLoseNothing ==
    (Running /\ RootWasComposite /\ StopsOnDistinctPaths /\ AllDone) =>
       LET W == ProfileSt_Print(World, Root)
       IN  /\ W.fault = NoFault
           /\ W.ps[Root].stats.totalTime = SumThreads(Tids, "dur")
           /\ SubtreeSamples(W.ps, Root) = Cardinality(Tids)

\* C5, with the discarded samples accounted for: the samples a stop discards by making a sampled leaf
\* composite are the only ones missing, and none is missing when no path
\* leads through the leaf another path registers on.
C5_ConcurrentStopsConserve ==
    (Running /\ RootWasComposite /\ StopsOnDistinctPaths /\ AllDone) =>
       LET W == ProfileSt_Print(World, Root)
           lostTime == SumThreads(Tids, "lostTime")
           lostSamples == SumThreads(Tids, "lostSamples")
       IN  /\ W.fault = NoFault
           /\ W.ps[Root].stats.totalTime + lostTime = SumThreads(Tids, "dur")
           /\ SubtreeSamples(W.ps, Root) + lostSamples = Cardinality(Tids)
           /\ IndependentPaths => lostTime = 0 /\ lostSamples = 0

\* C5 witness: the goroutines have stopped their timers of the composite root
\* along independent paths, both having found the first segment missing, and
\* the update pass has given the root the sum of the durations.
C5_Witness ==
    /\ Running /\ RootWasComposite /\ StopsOnDistinctPaths /\ AllDone
    /\ IndependentPaths
    /\ \A i \in Tids : threads[i].missed
    /\ \E i \in Tids : Len(threads[i].path) > 1
    /\ profiles[Root].stats.valid
    /\ profiles[Root].stats.totalTime = SumThreads(Tids, "dur")

\* the node stored under name in the map the call of goroutine th looks in
Stored(th) ==
    CASE th.op = "Group" ->
            IF th.name \in DOMAIN ggroups THEN ggroups[th.name] ELSE NIL
      [] th.op = "GProfile" ->
            IF th.name \in DOMAIN groups[th.recv].profiles
            THEN groups[th.recv].profiles[th.name] ELSE NIL
      [] th.op = "PProfile" ->
            IF th.name \in DOMAIN profiles[th.recv].subProfiles
            THEN profiles[th.recv].subProfiles[th.name] ELSE NIL

GetOrCreate == {"Group", "GProfile", "PProfile"}

\* C6: under every interleaving, a Group(name), g.Profile(name) or
\* p.Profile(name) that has returned has returned the node stored under name
\* in the parent's map, so the goroutines that asked the same parent for the
\* same name have all received the same node.
C6_GetOrCreateOnce ==
    Running =>
      /\ \A i \in Tids :
            (threads[i].op \in GetOrCreate /\ threads[i].pc = "done") =>
               threads[i].ret # NIL /\ threads[i].ret = Stored(threads[i])
      /\ \A i \in Tids, j \in Tids :
            (/\ threads[i].op \in GetOrCreate /\ threads[i].pc = "done"
             /\ threads[j].pc = "done" /\ threads[j].op = threads[i].op
             /\ threads[j].recv = threads[i].recv /\ threads[j].name = threads[i].name)
            => threads[i].ret = threads[j].ret

\* C6 witness: two goroutines asked the root for the same new name, both
\* found it missing, and both have returned with the same profile.
C6_Witness ==
    \E i \in Tids, j \in Tids :
        /\ i # j
        /\ threads[i].op = "PProfile" /\ threads[j].op = "PProfile"
        /\ threads[i].name = threads[j].name
        /\ threads[i].missed /\ threads[j].missed
        /\ threads[i].pc = "done" /\ threads[j].pc = "done"
        /\ threads[i].ret = threads[j].ret
        /\ threads[i].ret = Stored(threads[i])

\* C6 witness at the registry: two goroutines asked for the same new group,
\* both found it missing under the read lock, and both have returned with the
\* same group.
GroupRaceReached ==
    \E i \in Tids, j \in Tids :
        /\ i # j
        /\ threads[i].op = "Group" /\ threads[j].op = "Group"
        /\ threads[i].missed /\ threads[j].missed
        /\ threads[i].pc = "done" /\ threads[j].pc = "done"
        /\ threads[i].ret = threads[j].ret

----------------------------------------------------------------------------
\* C11: StopAs with no condition returns without a fault and leaves the locks
\* of the profile free, so that a later Stop on the profile goes through.
C11_EmptyPathIsHarmless ==
    \A p \in Pids, d \in Durations :
        Running =>
          LET W == StopAs(World, StartTimer(p, 0), <<>>, d)
          IN  /\ W.fault = NoFault
              /\ W.ps[p].mu = FreeMu
              /\ W.ps[p].stats.mu = FreeMu
              /\ Stop(W, StartTimer(p, 0), d).fault = NoFault

----------------------------------------------------------------------------
(* The sequential calls of Spec, with the calls that make a profile         *)
(* composite without registering a sample.                                  *)

\* p.Profile(pname)
DoProfile(p, pname) ==
    /\ Running
    /\ LET r == ProfileSt_Profile(World, p, pname)
       IN  /\ Len(r.w.ps) <= MaxProfiles
           /\ SetWorld(r.w)
    /\ UNCHANGED <<nreg, durs, threads>>

\* p.MakeComposite()
DoMakeComposite(p) ==
    /\ Running
    /\ SetWorld(MakeComposite(World, p))
    /\ UNCHANGED <<nreg, durs, threads>>

\* g.Builder().NewProfile(pname)
DoNewProfile(g, pname) ==
    /\ Running
    /\ LET r == NewProfile(World, GroupSt_Builder(World, g), pname)
       IN  /\ Len(r.w.ps) <= MaxProfiles
           /\ SetWorld(r.w)
    /\ UNCHANGED <<nreg, durs, threads>>

TreeNext ==
    \/ Next
    \/ \E p \in Pids, pname \in Names : DoProfile(p, pname)
    \/ \E p \in Pids : DoMakeComposite(p)
    \/ \E g \in Gids, pname \in Names : DoNewProfile(g, pname)

SpecTree == Init /\ [][TreeNext]_vars

C13_FirstRegistrantWins ==
    Running =>
      /\ \A g \in Gids : \A name \in DOMAIN groups[g].profiles :
            builders[groups[g].builder].parentGroup = g =>
               LET r == NewProfile(World, groups[g].builder, name)
               IN  /\ r.w.fault = NoFault
                   /\ r.w.gs[g].profiles = groups[g].profiles
                   /\ r.ret = groups[g].profiles[name]
      /\ \A p \in Pids : \A name \in DOMAIN profiles[p].subProfiles :
            builders[profiles[p].builder].parentProfile = p =>
               LET r == NewProfile(World, profiles[p].builder, name)
               IN  /\ r.w.fault = NoFault
                   /\ r.w.ps[p].subProfiles = profiles[p].subProfiles
                   /\ r.ret = profiles[p].subProfiles[name]

\* C13 for a profile as the parent: the child the map holds is returned.
ProfileFirstRegistrantWins ==
    Running =>
      \A p \in Pids : \A name \in DOMAIN profiles[p].subProfiles :
         builders[profiles[p].builder].parentProfile = p =>
            LET r == NewProfile(World, profiles[p].builder, name)
            IN  /\ r.w.fault = NoFault
                /\ r.w.ps[p].subProfiles = profiles[p].subProfiles
                /\ r.ret = profiles[p].subProfiles[name]

\* C15: MakeComposite returns with every lock free; on a leaf it leaves a
\* composite with no children and fresh zeroed Stats and touches nothing else;
\* on a composite it changes nothing; a second MakeComposite changes nothing.
C15_MakeCompositeIdempotent ==
    \A p \in Pids :
        Running =>
          LET W == MakeComposite(World, p)
          IN  /\ W.fault = NoFault
              /\ \A q \in Pids : W.ps[q].mu = FreeMu /\ W.ps[q].stats.mu = FreeMu
              /\ W.gs = World.gs /\ W.gg = World.gg /\ W.bs = World.bs
              /\ MakeComposite(W, p) = W
              /\ IF profiles[p].composite
                 THEN W = World
                 ELSE /\ W.ps[p].composite
                      /\ W.ps[p].subProfiles = EmptyMap
                      /\ W.ps[p].stats = newProfileStats
                      /\ W.ps[p].stats.nsamples = 0
                      /\ W.ps[p].stats.totalTime = 0
                      /\ W.ps[p].stats.samples = <<>>
                      /\ W.ps = [World.ps EXCEPT ![p] = W.ps[p]]

\* a leaf that holds a sample is converted and loses it, next to a composite
\* that has children
C15_Witness ==
    /\ Running
    /\ \E p \in Pids :
          /\ ~profiles[p].composite
          /\ profiles[p].stats.nsamples > 0
          /\ MakeComposite(World, p).ps[p].stats.nsamples = 0
          /\ MakeComposite(World, p).ps[p].composite
    /\ \E q \in Pids :
          /\ profiles[q].composite
          /\ profiles[q].subProfiles # EmptyMap
          /\ profiles[q].stats.nsamples > 0

RECURSIVE Subtree(_, _)
\* profile p and every profile below it
Subtree(ps, p) == {p} \cup UNION {Subtree(ps, k) : k \in Range(ps[p].subProfiles)}

\* C17: an update pass on a profile or a group that returns leaves every node
\* below it valid, and a second pass right after it changes nothing: the same
\* aggregates at every node, no node recomputed.
C17_UpdateIdempotent ==
    Running =>
      /\ \A p \in Pids :
            LET W == ProfileSt_Print(World, p)
            IN  W.fault = NoFault =>
                  /\ \A q \in Subtree(W.ps, p) : W.ps[q].stats.valid
                  /\ ProfileSt_Print(W, p) = W
                  /\ profileUpdate(W, p) = W
      /\ \A g \in Gids :
            LET W == GroupSt_Print(World, g)
            IN  W.fault = NoFault =>
                  /\ W.gs[g].stats.valid
                  /\ \A k \in Range(W.gs[g].profiles) :
                        \A q \in Subtree(W.ps, k) : W.ps[q].stats.valid
                  /\ GroupSt_Print(W, g) = W
                  /\ groupUpdate(W, g) = W

\* an invalid composite holding samples two levels deep is recomputed by the
\* first pass, and an invalid group is recomputed by a group pass
C17_Witness ==
    /\ Running
    /\ \E p \in Pids :
          /\ profiles[p].composite
          /\ ~profiles[p].stats.valid
          /\ \E k \in Range(profiles[p].subProfiles) : profiles[k].composite
          /\ ProfileSt_Print(World, p).fault = NoFault
          /\ ProfileSt_Print(World, p).ps[p].stats.totalTime > 0
          /\ ProfileSt_Print(World, p) # World
    /\ \E g \in Gids :
          /\ ~groups[g].stats.valid
          /\ GroupSt_Print(World, g).fault = NoFault
          /\ GroupSt_Print(World, g).gs[g].stats.nsamples > 0

RECURSIVE Ancestors(_, _)
\* the profiles above x, along the parent pointers
Ancestors(ps, x) ==
    IF ps[x].parent = NIL THEN {}
    ELSE {ps[x].parent} \cup Ancestors(ps, ps[x].parent)

\* the leaves of W1 that hold one sample more than they did in W0
Registered(W0, W1) ==
    {x \in 1..Len(W1.ps) :
        /\ ~W1.ps[x].composite
        /\ W1.ps[x].stats.nsamples =
              (IF x <= Len(W0.ps) /\ ~W0.ps[x].composite
               THEN W0.ps[x].stats.nsamples ELSE 0) + 1}

\* the state of leaf x and of the profiles above it right after a registration
InvalidatedAbove(W, x) ==
    /\ \A a \in Ancestors(W.ps, x) : ~W.ps[a].stats.valid
    /\ W.ps[x].stats.valid = ~W.ps[x].memory

\* C19: a registration on a leaf marks every ancestor invalid while the leaf
\* and its Stats are still locked; after Stop or StopAs returns, every
\* ancestor of the leaf that took the sample is invalid, and the leaf is
\* invalid if it retains samples and valid if it does not.
C19_RegistrationInvalidatesAncestors ==
    Running =>
      /\ \A x \in Pids, d \in Durations :
            ~profiles[x].composite =>
              LET W == registerSample(SLock(PLock(World, x), x), x, newSample(0, d))
              IN  /\ W.ps[x].mu # FreeMu
                  /\ W.ps[x].stats.mu # FreeMu
                  /\ InvalidatedAbove(W, x)
      /\ \A p \in Pids, conds \in Paths, d \in Durations :
            LET W == StopAs(World, StartTimer(p, 0), conds, d)
            IN  W.fault = NoFault =>
                  \E x \in Registered(World, W) :
                      /\ Registered(World, W) = {x}
                      /\ InvalidatedAbove(W, x)
      /\ \A p \in Pids, d \in Durations :
            LET W == Stop(World, StartTimer(p, 0), d)
            IN  /\ W.fault = NoFault
                /\ \E x \in Registered(World, W) :
                      /\ Registered(World, W) = {x}
                      /\ InvalidatedAbove(W, x)

\* a leaf two levels down whose ancestors are all valid and hold samples
\* takes a sample, and both ancestors become invalid
C19_Witness ==
    /\ Running
    /\ \E x \in Pids, d \in Durations :
          LET W == Stop(World, StartTimer(x, 0), d)
          IN  /\ ~profiles[x].composite
              /\ Cardinality(Ancestors(profiles, x)) >= 2
              /\ \A a \in Ancestors(profiles, x) :
                    profiles[a].stats.valid /\ profiles[a].stats.nsamples > 0
              /\ Registered(World, W) = {x}
              /\ \A a \in Ancestors(W.ps, x) : ~W.ps[a].stats.valid

\* the step is an update pass: Print on a profile or on a group
UpdatePass ==
    \/ \E q \in Pids : DoPrint(q)
    \/ \E g \in Gids : DoGroupPrint(g)

\* C20: the Stats of a node go from invalid to valid only in a step that is
\* an update pass; get-or-create, MakeComposite, Stop and StopAs never make an
\* invalid node valid.
C20_OnlyUpdateClearsInvalidity ==
    [][\A p \in Pids :
          (~profiles[p].stats.valid /\ profiles'[p].stats.valid) => UpdatePass]_vars

\* C20 apart from the conversion of a leaf: a node that goes from invalid to
\* valid outside an update pass is a leaf that became a composite with fresh
\* Stats
OnlyUpdateOrConversionClearsInvalidity ==
    [][\A p \in Pids :
          (~profiles[p].stats.valid /\ profiles'[p].stats.valid) =>
             \/ UpdatePass
             \/ /\ ~profiles[p].composite
                /\ profiles'[p].composite
                /\ profiles'[p].stats = newProfileStats]_vars

----------------------------------------------------------------------------
(* The thread-count setters: one builder from NewProfileBuilder, the        *)
(* setters called on it with any request, and profiles stamped from it.     *)

\* the thread counts asked for: none, and up to one more than the cores
Requests == 0..(cores + 1)

\* the builder made by NewProfileBuilder()
TheBuilder == 1

ThreadsInit ==
    /\ InitWorld([EmptyWorld EXCEPT !.bs = <<NewProfileBuilder>>])
    /\ nreg = 0
    /\ durs = <<>>
    /\ threads = <<>>

\* pb.WithNThreads(n)
ThWithNThreads(n) ==
    /\ builders' = [builders EXCEPT ![TheBuilder] = WithNThreads(@, n)]
    /\ UNCHANGED <<ggroups, groups, profiles, fault, nreg, durs, threads>>

\* pb.WithNCores(n)
ThWithNCores(n) ==
    /\ builders' = [builders EXCEPT ![TheBuilder] = WithNCores(@, n)]
    /\ UNCHANGED <<ggroups, groups, profiles, fault, nreg, durs, threads>>

\* pb.AddMultiThreading()
ThAddMultiThreading ==
    /\ builders' = [builders EXCEPT ![TheBuilder] = AddMultiThreading(@)]
    /\ UNCHANGED <<ggroups, groups, profiles, fault, nreg, durs, threads>>

\* pb.RemoveMultiThreading()
ThRemoveMultiThreading ==
    /\ builders' = [builders EXCEPT ![TheBuilder] = RemoveMultiThreading(@)]
    /\ UNCHANGED <<ggroups, groups, profiles, fault, nreg, durs, threads>>

\* pb.NewProfile(pname)
ThNewProfile(pname) ==
    /\ Len(profiles) < MaxStamped
    /\ SetWorld(NewProfile(World, TheBuilder, pname).w)
    /\ UNCHANGED <<nreg, durs, threads>>

ThreadsNext ==
    \/ \E n \in Requests : ThWithNThreads(n)
    \/ \E n \in Requests : ThWithNCores(n)
    \/ ThAddMultiThreading
    \/ ThRemoveMultiThreading
    \/ \E pname \in Names : ThNewProfile(pname)

SpecThreads == ThreadsInit /\ [][ThreadsNext]_vars

\* C14: whatever thread-count setters were called, the builder's thread count
\* and that of every profile stamped from it lie between 1 and cores, and a
\* request of 0 gives 1.
C14_ThreadCountWithinCores ==
    /\ builders[TheBuilder].nThreads >= 1
    /\ builders[TheBuilder].nThreads <= cores
    /\ \A p \in Pids : profiles[p].nThreads >= 1 /\ profiles[p].nThreads <= cores
    /\ WithNThreads(builders[TheBuilder], 0).nThreads = 1
    /\ WithNCores(builders[TheBuilder], 0).nThreads = 1

\* C14 amended: the thread count of the builder and of every profile stamped
\* from it is at least 1; WithNThreads gives the request cut down to cores,
\* AddMultiThreading gives cores, RemoveMultiThreading gives 1, and WithNCores
\* gives the request as it is, above cores too; a request of 0 gives 1 with
\* both; a stamped profile and its own builder take the builder's count.
C14_ThreadCountAmended ==
    LET pb == builders[TheBuilder] IN
    /\ pb.nThreads >= 1
    /\ \A b \in Bids : builders[b].nThreads >= 1
    /\ \A p \in Pids : profiles[p].nThreads >= 1
    /\ \A n \in Requests :
          /\ WithNThreads(pb, n).nThreads = (IF n = 0 THEN 1 ELSE IF n > cores THEN cores ELSE n)
          /\ WithNCores(pb, n).nThreads = (IF n = 0 THEN 1 ELSE n)
    /\ AddMultiThreading(pb).nThreads = cores
    /\ RemoveMultiThreading(pb).nThreads = 1
    /\ \A pname \in Names :
          LET r == NewProfile(World, TheBuilder, pname)
          IN  /\ r.w.ps[r.ret].nThreads = pb.nThreads
              /\ r.w.bs[r.w.ps[r.ret].builder].nThreads = pb.nThreads

\* one profile was stamped after WithNCores(cores + 1) and holds more threads
\* than there are cores, another holds a count within the cores, and the
\* builder has since been set back by a clamping setter
C14_Witness ==
    /\ \E p \in Pids : profiles[p].nThreads = cores + 1
    /\ \E q \in Pids : profiles[q].nThreads <= cores
    /\ builders[TheBuilder].nThreads = cores
    /\ WithNCores(builders[TheBuilder], cores + 1).nThreads = cores + 1
    /\ WithNThreads(builders[TheBuilder], cores + 1).nThreads = cores

----------------------------------------------------------------------------
(* Concurrent calls, one step per lock taken: a goroutine that asks for a   *)
(* held lock waits, so a step is enabled only when its lock is free.        *)

\* the calls a goroutine can make on the root profile and on its group
LockPrograms ==
    <<[op |-> "StopAs", recv |-> Root, name |-> "", path |-> <<"base">>],
      [op |-> "StopAs", recv |-> Root, name |-> "", path |-> <<"a">>],
      [op |-> "StopAs", recv |-> Root, name |-> "", path |-> <<"a", "a">>],
      [op |-> "Print", recv |-> Root, name |-> "", path |-> <<>>],
      [op |-> "MakeComposite", recv |-> Root, name |-> "", path |-> <<>>],
      [op |-> "PProfile", recv |-> Root, name |-> "a", path |-> <<>>],
      [op |-> "GPrint", recv |-> RootGroup, name |-> "", path |-> <<>>],
      [op |-> "GProfile", recv |-> RootGroup, name |-> "a", path |-> <<>>]>>

\* what a goroutine that is not inside registerSample has read of a Stats
Unread == [nsamples |-> 0, totalTime |-> 0, effectiveTime |-> 0, samples |-> <<>>]

\* the fields of p.stats that registerSample reads before it writes them
ReadStats(W, p) ==
    LET s == W.ps[p].stats
    IN  IF W.ps[p].memory
        THEN [Unread EXCEPT !.nsamples = s.nsamples, !.samples = s.samples]
        ELSE [Unread EXCEPT !.nsamples = s.nsamples, !.totalTime = s.totalTime,
                            !.effectiveTime = s.effectiveTime]

\* the world in which p.stats holds, in the fields registerSample reads, the
\* values a goroutine has read: what it writes is computed from them
WithSeen(W, p, seen) ==
    IF W.ps[p].memory
    THEN [W EXCEPT !.ps[p].stats.nsamples = seen.nsamples,
                   !.ps[p].stats.samples = seen.samples]
    ELSE [W EXCEPT !.ps[p].stats.nsamples = seen.nsamples,
                   !.ps[p].stats.totalTime = seen.totalTime,
                   !.ps[p].stats.effectiveTime = seen.effectiveTime]

\* goroutine i at the start of its call; its timer lasts 2^(i-1).  node is
\* the receiver of the frame it is in, todo the children recursiveLock has
\* still to lock, kid the child it is locking, gtodo the profiles
\* GroupSt.recursiveLock has still to lock, utodo the children update has
\* still to visit.
LockGoroutine(i, prog) ==
    [op |-> prog.op, recv |-> prog.recv, name |-> prog.name,
     pc |-> CASE prog.op = "StopAs" -> "head"
              [] prog.op = "PProfile" -> "probe"
              [] prog.op = "GProfile" -> "call"
              [] prog.op = "GPrint" -> "glock"
              [] OTHER -> "lock",
     node |-> prog.recv, conds |-> prog.path, dur |-> 2 ^ (i - 1),
     todo |-> {}, kid |-> NIL, gtodo |-> {}, utodo |-> {}, seen |-> Unread]

\* the world of ConcWorld after Root.StopAs("a", "a"): Root and Root/a are
\* composite and the leaf Root/a/a holds one sample
DeepWorld(m) ==
    StopAs(ConcWorld(FALSE, m), StartTimer(Root, 0), <<"a", "a">>, 2 ^ MaxThreads)

LockInit ==
    /\ \E c \in BOOLEAN, m \in BOOLEAN, deep \in BOOLEAN :
          InitWorld(IF deep /\ ~c THEN DeepWorld(m) ELSE ConcWorld(c, m))
    /\ \E f \in [1..MaxThreads -> 1..Len(LockPrograms)] :
          /\ \A i \in 1..(MaxThreads - 1) : f[i] <= f[i + 1]
          /\ threads = [i \in 1..MaxThreads |-> LockGoroutine(i, LockPrograms[f[i]])]
    /\ nreg = 0
    /\ durs = <<>>

\* the call would wait for a lock
Blocked(W) == W.fault \in {"blocked: Lock", "blocked: RLock"}

\* registerTimer from its entry: with more than one name it calls Profile;
\* else it takes p.Lock and, on a leaf asked for the default name, keeps it
\* to go on to p.stats.Lock; in the other cases it unlocks and calls Profile
LHead(i) ==
    /\ Running
    /\ threads[i].op = "StopAs" /\ threads[i].pc = "head"
    /\ LET p == threads[i].node
           t == [profile |-> threads[i].recv, conds |-> threads[i].conds,
                 start |-> 0, end |-> threads[i].dur]
           h == registerTimerHead(World, p, t)
       IN  IF /\ Len(t.conds) = 1
              /\ ~profiles[p].composite
              /\ t.conds[1] = default_condition_name
           THEN /\ ~Blocked(PLock(World, p))
                /\ SetWorld(PLock(World, p))
                /\ threads' = [threads EXCEPT ![i].pc = "register"]
           ELSE /\ ~Blocked(h.w)
                /\ SetWorld(h.w)
                /\ threads' = [threads EXCEPT ![i].pc = "probe", ![i].name = h.cond,
                                              ![i].conds = h.conds]
    /\ UNCHANGED <<nreg, durs>>

\* registerTimer on a leaf: p.stats.Lock(), and registerSample reads the
\* counters and the samples it is going to add to
LRegister(i) ==
    /\ Running
    /\ threads[i].pc = "register"
    /\ LET p == threads[i].node
           W1 == SLock(World, p)
       IN  /\ ~Blocked(W1)
           /\ SetWorld(W1)
           /\ threads' = [threads EXCEPT ![i].pc = "write",
                                         ![i].seen = ReadStats(W1, p)]
    /\ UNCHANGED <<nreg, durs>>

\* registerTimer on a leaf: registerSample marks the chain invalid and writes
\* the counters and the samples back, then p.Unlock()
LWrite(i) ==
    /\ Running
    /\ threads[i].pc = "write"
    /\ LET p == threads[i].node
           W1 == WithSeen(World, p, threads[i].seen)
           W2 == registerSample(W1, p, newSample(0, threads[i].dur))
       IN  SetWorld(PUnlock(W2, p))
    /\ threads' = [threads EXCEPT ![i].pc = "statsunlock", ![i].seen = Unread]
    /\ UNCHANGED <<nreg, durs>>

\* registerTimer on a leaf: p.stats.Unlock(), which reads p.stats after
\* p.Unlock().  When the leaf has been made composite since, p.stats has been
\* written by another goroutine with no synchronisation in between: the read
\* gives the new Stats or the old one.
LStatsUnlock(i) ==
    /\ Running
    /\ threads[i].pc = "statsunlock"
    /\ \/ SetWorld(SUnlock(World, threads[i].node))
       \/ /\ profiles[threads[i].node].composite
          /\ UNCHANGED <<ggroups, groups, profiles, builders, fault>>
    /\ threads' = [threads EXCEPT ![i].pc = "done"]
    /\ UNCHANGED <<nreg, durs>>

\* ProfileSt.Profile: the lookup under p.RLock
LProbe(i) ==
    /\ Running
    /\ threads[i].pc = "probe"
    /\ LET r == ProfileProbe(World, threads[i].node, threads[i].name)
       IN  /\ ~Blocked(r.w)
           /\ SetWorld(r.w)
           /\ threads' =
                IF ~r.ok THEN [threads EXCEPT ![i].pc = "new"]
                ELSE IF threads[i].op = "PProfile"
                THEN [threads EXCEPT ![i].pc = "done"]
                ELSE [threads EXCEPT ![i].pc = "head", ![i].node = r.ret]
    /\ UNCHANGED <<nreg, durs>>

\* ProfileSt.Profile: NewProfile, the new profile added under the parent's Lock
LNew(i) ==
    /\ Running
    /\ threads[i].pc = "new"
    /\ LET r == NewProfile(World, profiles[threads[i].node].builder, threads[i].name)
       IN  /\ ~Blocked(r.w)
           /\ SetWorld(r.w)
           /\ threads' =
                IF threads[i].op = "PProfile"
                THEN [threads EXCEPT ![i].pc = "done"]
                ELSE [threads EXCEPT ![i].pc = "head", ![i].node = r.ret]
    /\ UNCHANGED <<nreg, durs>>

\* GroupSt.Profile, under g.Lock
LGroupProfile(i) ==
    /\ Running
    /\ threads[i].op = "GProfile" /\ threads[i].pc = "call"
    /\ LET r == GroupSt_Profile(World, threads[i].recv, threads[i].name)
       IN  /\ ~Blocked(r.w)
           /\ SetWorld(r.w)
    /\ threads' = [threads EXCEPT ![i].pc = "done"]
    /\ UNCHANGED <<nreg, durs>>

\* goroutine th once recursiveLock on th.node has taken its last lock: Print
\* goes on to update, MakeComposite to its body, GroupSt.recursiveLock to the
\* next profile q of the group, or to update when none is left
AfterRecursiveLock(th, q) ==
    CASE th.op = "Print" ->
           [th EXCEPT !.pc = "update", !.utodo = Range(profiles[th.node].subProfiles)]
      [] th.op = "MakeComposite" -> [th EXCEPT !.pc = "convert"]
      [] OTHER ->
           IF th.gtodo = {} THEN [th EXCEPT !.pc = "gupdate"]
           ELSE [th EXCEPT !.pc = "lock", !.node = q, !.gtodo = @ \ {q}]

\* the profiles GroupSt.recursiveLock can take next
NextOf(th) == IF th.op = "GPrint" /\ th.gtodo # {} THEN th.gtodo ELSE {NIL}

\* recursiveLock: p.Lock()
LLock(i) ==
    /\ Running
    /\ threads[i].pc = "lock"
    /\ ~Blocked(PLock(World, threads[i].node))
    /\ SetWorld(PLock(World, threads[i].node))
    /\ threads' = [threads EXCEPT ![i].pc = "statslock"]
    /\ UNCHANGED <<nreg, durs>>

\* recursiveLock: p.stats.Lock(), and the range over the children begins
LStatsLock(i) ==
    /\ Running
    /\ threads[i].pc = "statslock"
    /\ ~Blocked(SLock(World, threads[i].node))
    /\ SetWorld(SLock(World, threads[i].node))
    /\ LET kids == Range(profiles[threads[i].node].subProfiles)
       IN  IF kids # {}
           THEN threads' = [threads EXCEPT ![i].pc = "kidlock", ![i].todo = kids]
           ELSE \E q \in NextOf(threads[i]) :
                   threads' = [threads EXCEPT ![i] = AfterRecursiveLock(@, q)]
    /\ UNCHANGED <<nreg, durs>>

\* recursiveLock: Lock() on a child, in the order the map gives
LKidLock(i) ==
    /\ Running
    /\ threads[i].pc = "kidlock"
    /\ \E q \in threads[i].todo :
          /\ ~Blocked(PLock(World, q))
          /\ SetWorld(PLock(World, q))
          /\ threads' = [threads EXCEPT ![i].pc = "kidstatslock", ![i].kid = q]
    /\ UNCHANGED <<nreg, durs>>

\* recursiveLock: stats.Lock() on the child
LKidStatsLock(i) ==
    /\ Running
    /\ threads[i].pc = "kidstatslock"
    /\ ~Blocked(SLock(World, threads[i].kid))
    /\ SetWorld(SLock(World, threads[i].kid))
    /\ LET rest == threads[i].todo \ {threads[i].kid}
       IN  IF rest # {}
           THEN threads' = [threads EXCEPT ![i].pc = "kidlock", ![i].todo = rest,
                                           ![i].kid = NIL]
           ELSE \E q \in NextOf(threads[i]) :
                   threads' = [threads EXCEPT
                                 ![i] = AfterRecursiveLock([@ EXCEPT !.todo = {}, !.kid = NIL], q)]
    /\ UNCHANGED <<nreg, durs>>

\* ProfileSt.update: update() on one child, in the order the map gives
LUpdateKid(i) ==
    /\ Running
    /\ threads[i].pc = "update"
    /\ \E q \in threads[i].utodo :
          /\ SetWorld(profileUpdate(World, q))
          /\ threads' = [threads EXCEPT ![i].utodo = @ \ {q}]
    /\ UNCHANGED <<nreg, durs>>

\* ProfileSt.update: p.stats.update() after the children, then the copy and
\* recursiveUnlock; a panic in update leaves the locks held
LUpdateSelf(i) ==
    /\ Running
    /\ threads[i].pc = "update"
    /\ threads[i].utodo = {}
    /\ SetWorld(recursiveUnlock(statsUpdate(World, threads[i].node), threads[i].node))
    /\ threads' = [threads EXCEPT ![i].pc = IF fault' = NoFault THEN "done" ELSE @]
    /\ UNCHANGED <<nreg, durs>>

\* MakeComposite with its locks taken
LConvert(i) ==
    /\ Running
    /\ threads[i].pc = "convert"
    /\ SetWorld(MakeCompositeLocked(World, threads[i].node))
    /\ threads' = [threads EXCEPT ![i].pc = "done"]
    /\ UNCHANGED <<nreg, durs>>

\* GroupSt.recursiveLock: g.Lock()
LGroupLock(i) ==
    /\ Running
    /\ threads[i].pc = "glock"
    /\ ~Blocked(GLock(World, threads[i].recv))
    /\ SetWorld(GLock(World, threads[i].recv))
    /\ threads' = [threads EXCEPT ![i].pc = "gstatslock"]
    /\ UNCHANGED <<nreg, durs>>

\* GroupSt.recursiveLock: g.stats.Lock(), and the range over the profiles begins
LGroupStatsLock(i) ==
    /\ Running
    /\ threads[i].pc = "gstatslock"
    /\ ~Blocked(GSLock(World, threads[i].recv))
    /\ SetWorld(GSLock(World, threads[i].recv))
    /\ LET todo == Range(groups[threads[i].recv].profiles)
       IN  IF todo = {} THEN threads' = [threads EXCEPT ![i].pc = "gupdate"]
           ELSE \E q \in todo :
                   threads' = [threads EXCEPT ![i].pc = "lock", ![i].node = q,
                                              ![i].gtodo = todo \ {q}]
    /\ UNCHANGED <<nreg, durs>>

\* GroupSt.Print with its locks taken: update, the copy, recursiveUnlock
LGroupUpdate(i) ==
    /\ Running
    /\ threads[i].pc = "gupdate"
    /\ SetWorld(groupRecursiveUnlock(groupUpdate(World, threads[i].recv), threads[i].recv))
    /\ threads' = [threads EXCEPT ![i].pc = IF fault' = NoFault THEN "done" ELSE @]
    /\ UNCHANGED <<nreg, durs>>

\* the steps of goroutine i
LStep(i) ==
    \/ LHead(i) \/ LRegister(i) \/ LWrite(i) \/ LStatsUnlock(i) \/ LProbe(i) \/ LNew(i)
    \/ LGroupProfile(i) \/ LLock(i) \/ LStatsLock(i) \/ LKidLock(i)
    \/ LKidStatsLock(i) \/ LUpdateKid(i) \/ LUpdateSelf(i) \/ LConvert(i)
    \/ LGroupLock(i) \/ LGroupStatsLock(i) \/ LGroupUpdate(i)

LockNext ==
    \/ \E i \in Tids : LHead(i)
    \/ \E i \in Tids : LRegister(i)
    \/ \E i \in Tids : LWrite(i)
    \/ \E i \in Tids : LStatsUnlock(i)
    \/ \E i \in Tids : LProbe(i)
    \/ \E i \in Tids : LNew(i)
    \/ \E i \in Tids : LGroupProfile(i)
    \/ \E i \in Tids : LLock(i)
    \/ \E i \in Tids : LStatsLock(i)
    \/ \E i \in Tids : LKidLock(i)
    \/ \E i \in Tids : LKidStatsLock(i)
    \/ \E i \in Tids : LUpdateKid(i)
    \/ \E i \in Tids : LUpdateSelf(i)
    \/ \E i \in Tids : LConvert(i)
    \/ \E i \in Tids : LGroupLock(i)
    \/ \E i \in Tids : LGroupStatsLock(i)
    \/ \E i \in Tids : LGroupUpdate(i)

SpecLock == LockInit /\ [][LockNext]_vars

\* the Go scheduler runs a goroutine that can run
FairSpecLock == SpecLock /\ WF_vars(LockNext)

\* goroutine i does not wait: the lock its next step takes is free
CanStep(i) ==
    LET th == threads[i] IN
    CASE th.pc = "head" -> Len(th.conds) > 1 \/ ~Blocked(PLock(World, th.node))
      [] th.pc = "register" -> ~Blocked(SLock(World, th.node))
      [] th.pc = "probe" -> ~Blocked(PRLock(World, th.node))
      [] th.pc = "new" -> ~Blocked(PLock(World, th.node))
      [] th.pc = "call" -> ~Blocked(GLock(World, th.recv))
      [] th.pc = "lock" -> ~Blocked(PLock(World, th.node))
      [] th.pc = "statslock" -> ~Blocked(SLock(World, th.node))
      [] th.pc = "kidlock" -> \E q \in th.todo : ~Blocked(PLock(World, q))
      [] th.pc = "kidstatslock" -> ~Blocked(SLock(World, th.kid))
      [] th.pc = "glock" -> ~Blocked(GLock(World, th.recv))
      [] th.pc = "gstatslock" -> ~Blocked(GSLock(World, th.recv))
      [] th.pc = "done" -> FALSE
      [] OTHER -> TRUE

\* C16: no call is stopped for ever: in every reachable state either every
\* call has returned and every lock of every group, profile and Stats is
\* free, or the process is alive and some goroutine can take its next step.
\* Every call is a bounded number of steps, so under the fairness of
\* FairSpecLock this is every call returning in the end.
C16_NoCallIsStopped ==
    IF AllDone THEN Running /\ LocksFree
    ELSE Running /\ \E i \in Tids : CanStep(i)

\* C16 as a temporal formula: in the end every call has returned and every
\* lock is free
EveryCallReturns == <>[](AllDone /\ Running /\ LocksFree)

\* C16 for the calls that take no lock after giving one back unread: no
\* goroutine of a live process waits on a lock that is never freed
NoGoroutineWaitsForEver == (Running /\ ~AllDone) => \E i \in Tids : CanStep(i)

RECURSIVE LeafTime(_, _)
\* the durations held by the leaves of the profiles S and below them
LeafTime(ps, S) ==
    IF S = {} THEN 0
    ELSE LET q == CHOOSE x \in S : TRUE
         IN  (IF ps[q].composite THEN LeafTime(ps, Range(ps[q].subProfiles))
              ELSE HeldTime(ps, q))
             + LeafTime(ps, S \ {q})

\* every goroutine is a Print of the root or a Stop or StopAs below it
PrintsAndStops ==
    /\ \A i \in Tids : threads[i].op \in {"Print", "StopAs"}
    /\ \E i \in Tids : threads[i].op = "Print"
    /\ \E i \in Tids : threads[i].op = "StopAs"

\* C18: when Print on the root ran together with Stop and StopAs below it and
\* every call has returned, one more update pass leaves the root's totalTime
\* equal to the sum of the durations held by the leaves below it.
C18_NoStaleValidAggregate ==
    (Running /\ AllDone /\ PrintsAndStops) =>
       LET W == ProfileSt_Print(World, Root)
       IN  W.fault = NoFault =>
             W.ps[Root].stats.totalTime = LeafTime(W.ps, {Root})

\* the profiles whose Stats the pass of goroutine th reads or recomputes:
\* update recurses from the receiver to every depth
PassNodes(th) ==
    CASE th.pc = "update" -> Subtree(profiles, th.node)
      [] th.pc = "gupdate" ->
           UNION {Subtree(profiles, k) : k \in Range(groups[th.recv].profiles)}
      [] OTHER -> {}

\* the profiles recursiveLock has locked for the pass of goroutine th: the
\* receiver and its children
PassLocked(th) ==
    CASE th.pc = "update" -> {th.node} \cup Range(profiles[th.node].subProfiles)
      [] th.pc = "gupdate" ->
           UNION {{k} \cup Range(profiles[k].subProfiles) :
                    k \in Range(groups[th.recv].profiles)}
      [] OTHER -> {}

\* C21: while an update pass reads, recomputes and copies, the lock and the
\* Stats lock of every profile of the subtree, at every depth, are held.
C21_PassHoldsEveryLock ==
    Running =>
      \A i \in Tids : \A q \in PassNodes(threads[i]) :
          profiles[q].mu.w /\ profiles[q].stats.mu.w

\* C21 one level deep: the pass goes only over profiles that recursiveLock
\* has locked when the receiver has no grandchildren
PassWithinOneLevelIsLocked ==
    Running =>
      \A i \in Tids :
          PassNodes(threads[i]) = PassLocked(threads[i]) =>
             \A q \in PassNodes(threads[i]) : profiles[q].mu.w

\* goroutine i takes the step of registerTimer that registers the sample and
\* runs invalidate up the parent chain
Registers(i) ==
    /\ threads[i].pc = "write"
    /\ threads'[i].pc = "statsunlock"

\* C22: when a registration marks the ancestors invalid, no ancestor's valid
\* flag is written while another goroutine holds the write lock of that
\* ancestor or of its Stats (the registering goroutine holds the locks of its
\* own leaf only).
C22_AncestorWrittenUnderItsLock ==
    [][\A i \in Tids :
          Registers(i) =>
             \A a \in Ancestors(profiles, threads[i].node) :
                 ~profiles[a].mu.w /\ ~profiles[a].stats.mu.w]_vars

\* C22 for the leaf itself: the sample is registered with the leaf's lock held
LeafWrittenUnderItsLock ==
    [][\A i \in Tids :
          Registers(i) => profiles[threads[i].node].mu.w]_vars

\* every goroutine is a Stop() on the leaf Root
StopsOnOneLeaf ==
    /\ ~profiles[Root].composite
    /\ \A i \in Tids : /\ threads[i].op = "StopAs"
                       /\ threads[i].node = Root
                       /\ threads[i].conds = <<default_condition_name>>

\* the goroutines whose registerSample has written its sample
Wrote == {i \in Tids : threads[i].pc \in {"statsunlock", "done"}}

RECURSIVE SumDur(_)
\* the durations of the timers of the goroutines S
SumDur(S) ==
    IF S = {} THEN 0
    ELSE LET i == CHOOSE j \in S : TRUE IN threads[i].dur + SumDur(S \ {i})

\* C23: timers of one leaf stopped concurrently with Stop() are registered
\* one after the other: under every interleaving the leaf counts one sample
\* for each registration made so far, a leaf that keeps no samples holds the
\* sum of their durations as its total time, a leaf that keeps samples holds
\* exactly these samples, and no call fails.
C23_SameLeafRegistrationsSerialized ==
    StopsOnOneLeaf =>
       LET s == profiles[Root].stats IN
       /\ fault = NoFault
       /\ s.nsamples = Cardinality(Wrote)
       /\ IF profiles[Root].memory
          THEN /\ Len(s.samples) = Cardinality(Wrote)
               /\ SumDurations(s.samples) = SumDur(Wrote)
          ELSE s.totalTime = SumDur(Wrote)

\* C23 happens: every Stop() has returned, MaxThreads of them on one leaf
C23_Witness ==
    /\ StopsOnOneLeaf
    /\ AllDone
    /\ Cardinality(Wrote) = MaxThreads
    /\ profiles[Root].stats.nsamples = MaxThreads

\* a composite holds no sample of its own
CompositeHoldsNoSamples ==
    \A p \in 1..Len(profiles) :
        profiles[p].composite => profiles[p].stats.samples = <<>>

\* a leaf has no children
LeafHoldsNoChildren ==
    \A p \in 1..Len(profiles) :
        ~profiles[p].composite => Range(profiles[p].subProfiles) = {}

\* the step that registers a sample writes it on a profile that is a leaf
\* before and after the step
RegistersOnALeaf ==
    [][\A i \in Tids :
          Registers(i) =>
             /\ ~profiles[threads[i].node].composite
             /\ ~profiles'[threads[i].node].composite]_vars

\* C24: a composite holds no samples of its own and a leaf no children, and
\* no Stop or StopAs on a non-empty path is cut short: the process in which
\* timers are stopped does not end on a fatal error, also when the profile
\* is made composite by another goroutine at the same time.
C24_StopRegistersOnOneLeaf ==
    /\ CompositeHoldsNoSamples
    /\ LeafHoldsNoChildren
    /\ (\E i \in Tids : threads[i].op = "StopAs") => fault = NoFault

\* the maps profile p is stored in: the profiles and the groups that hold it
Holders(p) ==
    {<<"profile", q>> : q \in {x \in Pids : p \in Range(profiles[x].subProfiles)}}
    \cup {<<"group", g>> : g \in {x \in Gids : p \in Range(groups[x].profiles)}}

RECURSIVE ParentAfter(_, _)
\* the profile reached from p by k parent references, NIL past the top
ParentAfter(p, k) ==
    IF p = NIL \/ k = 0 THEN p ELSE ParentAfter(profiles[p].parent, k - 1)

\* every profile is in at most one map, under its own name; a child's parent
\* is its holder, a group's profile has none, and the parent chain ends
TreeShape ==
    /\ \A p \in Pids : Cardinality(Holders(p)) <= 1
    /\ \A q \in Pids : \A n \in DOMAIN profiles[q].subProfiles :
          LET c == profiles[q].subProfiles[n]
          IN  c \in Pids /\ profiles[c].name = n /\ profiles[c].parent = q
    /\ \A g \in Gids : \A n \in DOMAIN groups[g].profiles :
          LET c == groups[g].profiles[n]
          IN  c \in Pids /\ profiles[c].name = n /\ profiles[c].parent = NIL
    /\ \A p \in Pids : ParentAfter(p, Len(profiles)) = NIL

\* the registry and the groups' maps keep every entry they have
EntriesKept ==
    /\ \A n \in DOMAIN ggroups : n \in DOMAIN ggroups' /\ ggroups'[n] = ggroups[n]
    /\ \A g \in Gids : \A n \in DOMAIN groups[g].profiles :
          /\ g \in DOMAIN groups'
          /\ n \in DOMAIN groups'[g].profiles
          /\ groups'[g].profiles[n] = groups[g].profiles[n]

\* C25: the profiles form a tree: each is stored in at most one map and
\* under its own name, a profile in profile P's map has parent P, a profile
\* in a group's map has no parent, parent references end at a top profile,
\* and no step removes or replaces an entry of the registry or of a group.
C25_TreeShape == [](TreeShape) /\ [][EntriesKept]_vars

\* C25 happens: a group holds a profile that holds a child, a third profile
\* is held by no map, and the group is asked again to store a profile under
\* the name it holds
C25_Witness ==
    /\ \E q \in Pids, c \in Pids :
          /\ Holders(q) = {<<"group", RootGroup>>}
          /\ Holders(c) = {<<"profile", q>>}
    /\ \E u \in Pids :
          /\ Holders(u) = {}
          /\ profiles[u].name \in DOMAIN groups[RootGroup].profiles

----------------------------------------------------------------------------
(* Stamping: one builder, every mutator of it, and the profiles it makes.   *)

\* pb.AddComposition()
StAddComposition ==
    /\ builders' = [builders EXCEPT ![TheBuilder] = AddComposition(@)]
    /\ UNCHANGED <<ggroups, groups, profiles, fault, nreg, durs, threads>>

\* pb.RemoveComposition()
StRemoveComposition ==
    /\ builders' = [builders EXCEPT ![TheBuilder] = RemoveComposition(@)]
    /\ UNCHANGED <<ggroups, groups, profiles, fault, nreg, durs, threads>>

\* pb.AddMemory()
StAddMemory ==
    /\ builders' = [builders EXCEPT ![TheBuilder] = AddMemory(@)]
    /\ UNCHANGED <<ggroups, groups, profiles, fault, nreg, durs, threads>>

\* pb.RemoveMemory()
StRemoveMemory ==
    /\ builders' = [builders EXCEPT ![TheBuilder] = RemoveMemory(@)]
    /\ UNCHANGED <<ggroups, groups, profiles, fault, nreg, durs, threads>>

StampNext ==
    \/ ThreadsNext
    \/ StAddComposition
    \/ StRemoveComposition
    \/ StAddMemory
    \/ StRemoveMemory

SpecStamp == ThreadsInit /\ [][StampNext]_vars

\* the step is a NewProfile: the heap holds one profile more
Stamps == Len(profiles') = Len(profiles) + 1

\* the profile made by the step and its own builder against the builder
\* before the step
StampedFromBuilder ==
    LET pb == builders[TheBuilder]
        pid == Len(profiles')
        p == profiles'[pid]
    IN  /\ p.composite = pb.composite
        /\ p.memory = pb.memory
        /\ p.nThreads = pb.nThreads
        /\ p.builder # TheBuilder
        /\ p.builder \notin Bids
        /\ builders'[p.builder] =
              [parentGroup |-> NIL, parentProfile |-> pid, composite |-> FALSE,
               memory |-> pb.memory, nThreads |-> pb.nThreads]
        /\ builders'[TheBuilder] = pb

\* the profiles made before the step and their builders are as they were
StampedUntouched ==
    \A p \in Pids :
        /\ profiles'[p] = profiles[p]
        /\ builders'[profiles[p].builder] = builders[profiles[p].builder]

\* C26: a profile made by NewProfile takes the builder's composite flag,
\* memory flag and thread count as they are at that moment; its own builder
\* is another builder, not composite, with the same memory flag and thread
\* count and the new profile as parent; the call leaves the builder as it
\* was; and no later mutator of the builder changes a profile made before or
\* that profile's builder.
C26_StampedAtCreation ==
    [][(Stamps => StampedFromBuilder) /\ StampedUntouched]_vars

\* C26 happens: a composite, retaining profile of cores threads was stamped,
\* its own builder is not composite, retaining, of cores threads, and the
\* builder has since been turned into a non-composite, non-retaining,
\* single-thread one
C26_Witness ==
    \E p \in Pids :
        /\ profiles[p].composite /\ profiles[p].memory /\ profiles[p].nThreads = cores
        /\ ~builders[profiles[p].builder].composite
        /\ builders[profiles[p].builder].memory
        /\ builders[profiles[p].builder].nThreads = cores
        /\ builders[profiles[p].builder].parentProfile = p
        /\ ~builders[TheBuilder].composite
        /\ ~builders[TheBuilder].memory
        /\ builders[TheBuilder].nThreads = 1

----------------------------------------------------------------------------
\* the leaves holding samples that the step makes composite
Converted ==
    {x \in Pids : /\ ~profiles[x].composite
                  /\ profiles[x].stats.nsamples > 0
                  /\ x <= Len(profiles')
                  /\ profiles'[x].composite}

\* after an update pass on composite a in world W, a's sums are those of its
\* children
SumsOfChildren(W, a) ==
    LET W1 == ProfileSt_Print(W, a)
        s == W1.ps[a].stats
    IN  /\ W1.fault = NoFault
        /\ s.totalTime = SumOver(W1.ps, Kids(W1.ps, a), "totalTime")
        /\ s.effectiveTime = SumOver(W1.ps, Kids(W1.ps, a), "effectiveTime")
        /\ s.nsamples = SumOver(W1.ps, Kids(W1.ps, a), "nsamples")

\* C27: when a leaf that holds samples is made composite while every profile
\* above it is up to date, the next update pass on each profile above it
\* gives that profile the sums of its children: total time, effective time
\* and sample count no longer contain the samples thrown away.
C27_ConversionKeepsAncestorsConsistent ==
    [][\A x \in Converted :
          (\A a \in Ancestors(profiles, x) : profiles[a].stats.valid) =>
             \A a \in Ancestors(profiles, x) : SumsOfChildren(World', a)]_vars

----------------------------------------------------------------------------
\* the leaves that keep no samples
PlainLeaves(ps) == {p \in 1..Len(ps) : ~ps[p].composite /\ ~ps[p].memory}

\* the aggregates of a Stats: the shares in the parent are not among them
Aggregates(s) == <<s.totalTime, s.effectiveTime, s.nsamples, s.meanTime>>

\* between two calls a leaf that keeps no samples is valid and holds none
PlainLeafValid ==
    \A p \in PlainLeaves(profiles) :
        profiles[p].stats.valid /\ profiles[p].stats.samples = <<>>

\* the step registers a sample of duration d on leaf p, which keeps none
RegisteredOn(p, d) ==
    LET s == profiles[p].stats
        t == profiles'[p].stats
        eff == s.effectiveTime + (d \div profiles[p].nThreads)
    IN  /\ t.totalTime = s.totalTime + d
        /\ t.effectiveTime = eff
        /\ t.nsamples = s.nsamples + 1
        /\ t.meanTime = eff \div (s.nsamples + 1)

\* a step leaves the aggregates of the leaves that keep no samples as they
\* are, unless it registers a sample
PlainLeafKeepsAggregates ==
    [][nreg' = nreg =>
          \A p \in PlainLeaves(profiles) \cap PlainLeaves(profiles') :
              Aggregates(profiles'[p].stats) = Aggregates(profiles[p].stats)]_vars

\* C28: on a leaf of T threads that keeps no samples, a registration of
\* duration d adds d to the total time, d / T (whole division) to the
\* effective time and 1 to the sample count, sets the mean time to effective
\* time / sample count and keeps no sample; the leaf is valid between any two
\* calls, and an update pass leaves its aggregates as they are.
C28_PlainLeafRegistration ==
    /\ [](PlainLeafValid)
    /\ [][\A p \in PlainLeaves(profiles) :
             IF nreg' = nreg + 1
             THEN RegisteredOn(p, durs'[Len(durs')])
             ELSE Aggregates(profiles'[p].stats) = Aggregates(profiles[p].stats)]_vars

\* C28 happens: a leaf of 2 threads that keeps no samples has taken
\* MaxLeafSamples samples, some of odd duration, and is valid
C28_Witness ==
    \E p \in PlainLeaves(profiles) :
        /\ profiles[p].nThreads = 2
        /\ profiles[p].stats.nsamples = MaxLeafSamples
        /\ 2 * profiles[p].stats.effectiveTime < profiles[p].stats.totalTime
        /\ profiles[p].stats.valid

====
